---- MODULE Spec2Model ----
(***************************************************************************)
(* Model of the deduplication engine: the sentence index, the Matcher,     *)
(* the SubBucket / BucketSet graph and the unit of work (RedisContext)     *)
(* that applies one card under WATCH / MULTI / EXEC optimistic locking.    *)
(*                                                                         *)
(* A unit of work is a deterministic computation over the values it has    *)
(* read.  Every KV read is one atomic step of the model: the step replays  *)
(* processCard over the values read so far (Run) up to the first key that  *)
(* has not been read yet, WATCHes and reads that key from the shared       *)
(* store, and stops.  When the replay needs no further key the step is     *)
(* the end of the unit of work: EXEC, a WatchError retry, an error, or     *)
(* the early return of the reprocess path.                                 *)
(***************************************************************************)
EXTENDS Integers, Sequences, FiniteSets, TLC

VARIABLES
    db,      \* evidence store: card id -> sequence of normalized sentences
    kv,      \* the shared key-value store: key -> value
    queue,   \* dedupQueue: the ingestion queue
    ctx,     \* per worker: the unit of work it is running
    hist,    \* what the last finished unit of work did (observations)
    shard,   \* the bytes of one sentence shard (the byte-level view of the encoding)
    appended, \* the records SentenceRepository.save has appended to that shard
    repo     \* one Repository of one context, its loads in flight and its calls

vars == <<db, kv, queue, ctx, hist, shard, appended, repo>>

----------------------------------------------------------------------------
(* Bounds of the model *)

NumCtx == 2        \* concurrent units of work
Fuel == 40         \* bound on the nested calls of one replay
MaxRetry == 2      \* WatchError retries followed per card

(* JavaScript values that are not integers *)
NaN == -1          \* undefined - 1, and every number derived from it
INF == 99          \* Math.min() of no arguments: Infinity
Undef == -2        \* Map.get of a missing key

(* Tunables *)
EDGE_TOLERANCE == 1
INSIDE_TOLERANCE == 2

----------------------------------------------------------------------------
(* JavaScript Map and Set: insertion-ordered, modelled as sequences *)

MHas(m, k) == \E i \in 1..Len(m) : m[i][1] = k
MGet(m, k) == IF MHas(m, k) THEN m[CHOOSE i \in 1..Len(m) : m[i][1] = k][2] ELSE Undef
MSet(m, k, v) ==
    IF MHas(m, k) THEN [i \in 1..Len(m) |-> IF m[i][1] = k THEN <<k, v>> ELSE m[i]]
    ELSE Append(m, <<k, v>>)
MDel(m, k) == SelectSeq(m, LAMBDA e : e[1] # k)
MKeys(m) == [i \in 1..Len(m) |-> m[i][1]]

SeqHas(s, x) == \E i \in 1..Len(s) : s[i] = x
SeqAdd(s, x) == IF SeqHas(s, x) THEN s ELSE Append(s, x)
SeqDel(s, x) == SelectSeq(s, LAMBDA e : e # x)
Range(s) == {s[i] : i \in 1..Len(s)}

\* const x = v; F(x)
Let(v, F(_)) == F(v)

\* const x = v; F(x), with v evaluated before F is entered
Force(v, F(_)) == CHOOSE r \in {F(x) : x \in {v}} : TRUE

\* the left fold of s: op(... op(op(base, s[1]), s[2]) ..., s[Len(s)]); the first half
\* of a range is evaluated before the second half starts
FoldSeq(op(_, _), base, s) ==
    LET RECURSIVE go(_, _, _)
        go(acc, lo, hi) ==
            IF lo > hi THEN acc
            ELSE IF lo = hi THEN op(acc, s[lo])
            ELSE Force(go(acc, lo, (lo + hi) \div 2),
                       LAMBDA half : go(half, (lo + hi) \div 2 + 1, hi))
    IN go(base, 1, Len(s))

\* lodash uniq: first occurrences, in order
uniq(s) == FoldSeq(LAMBDA acc, x : SeqAdd(acc, x), <<>>, s)
\* lodash intersection(a, b): the elements of a that are in b, in a's order
intersection(a, b) == SelectSeq(uniq(a), LAMBDA x : SeqHas(b, x))

\* ascending order of a finite set of integers (Redis intset, JS integer keys)
RECURSIVE SortSet(_)
SortSet(S) ==
    IF S = {} THEN <<>>
    ELSE LET m == CHOOSE x \in S : \A y \in S : x <= y
         IN <<m>> \o SortSet(S \ {m})

\* Math.min(...keys)
MathMin(s) == IF s = <<>> THEN INF ELSE CHOOSE x \in Range(s) : \A y \in Range(s) : x <= y

\* number arithmetic with NaN
Plus1(x) == IF x = NaN \/ x = Undef THEN NaN ELSE x + 1
Minus1(x) == IF x = NaN \/ x = Undef THEN NaN ELSE x - 1
\* x <= 1 as JavaScript evaluates it (false for NaN and undefined)
LeOne(x) == x # NaN /\ x # Undef /\ x <= 1

\* SHOULD_MATCH with >= in the place of >
SHOULD_MATCH_half(matching, total) ==
    IF matching = NaN \/ matching = Undef THEN FALSE
    ELSE IF total = 0 THEN matching > 0
    ELSE 2 * matching >= total

SHOULD_MATCH(matching, total) ==
    IF matching = NaN \/ matching = Undef THEN FALSE
    ELSE IF total = 0 THEN matching > 0
    ELSE 2 * matching > total

SHOULD_MERGE(matching, total) ==
    IF matching = NaN \/ matching = Undef THEN FALSE
    ELSE IF total = 0 THEN matching > 0
    ELSE matching > 5 \/ 5 * matching >= total

----------------------------------------------------------------------------
(* The key-value store.  Keys are <<prefix, id>>.  A hash is the sequence  *)
(* of its <<field, id, value>> entries in insertion order ("c", 3, 2 is    *)
(* the field c3 with value 2), a sentence shard the sequence of its        *)
(* <<subKey, cardId, index>> records, a "BS" value the set of its members. *)

\* Sentence.createKey: the shard (top 20 bits of the digest) and the subKey
\* (next 40 bits) of a sentence; two sentences fall into each shard
SentenceBucket(s) == (s + 1) \div 2
SentenceSubKey(s) == s

\* the store key a repository reads for one of its keys
StoreKey(K) ==
    CASE K[1] = "CL" -> <<"C", K[2]>>
      [] K[1] = "CSB" -> <<"C", K[2]>>
      [] K[1] = "S" -> <<"S", SentenceBucket(K[2])>>
      [] OTHER -> K

\* hGetAll / sMembers / get of a store key: the empty value when absent
KVRead(store, K) ==
    LET k == StoreKey(K) IN
    IF k \notin DOMAIN store THEN <<>>
    ELSE IF K[1] = "BS" THEN SortSet(store[k])
    ELSE store[k]

HashHas(h, f, id) == \E i \in 1..Len(h) : h[i][1] = f /\ h[i][2] = id
HashGet(h, f, id) == h[CHOOSE i \in 1..Len(h) : h[i][1] = f /\ h[i][2] = id][3]
HashSet(h, f, id, v) ==
    IF HashHas(h, f, id)
    THEN [i \in 1..Len(h) |-> IF h[i][1] = f /\ h[i][2] = id THEN <<f, id, v>> ELSE h[i]]
    ELSE Append(h, <<f, id, v>>)
HashDel(h, f, id) == SelectSeq(h, LAMBDA e : ~(e[1] = f /\ e[2] = id))

\* function update that may extend the domain
Put(f, k, v) == [x \in DOMAIN f \cup {k} |-> IF x = k THEN v ELSE f[x]]
Drop(f, k) == [x \in DOMAIN f \ {k} |-> f[x]]

----------------------------------------------------------------------------
(* The state of one RedisContext during a replay.                          *)
(*   rd    the values this unit of work has read: repository key -> value  *)
(*         (the whole store when the unit of work runs alone)              *)
(*   miss  the first key the replay needed and had not read                *)
(*   err   the error thrown, "" when none                                  *)
(*   sbH   SubBucket objects; sbC the SubBucketRepository cache: key ->     *)
(*         object (0 is null); sbD its deletions                           *)
(*   bsH, bsC, bsD  the same for BucketSet                                 *)
(*   csbC, clC, sC  caches of CardSubBucket, CardLength and Sentence        *)
(*   tx    commands queued on the transaction; wat the keys WATCHed        *)
(*   enq   cards added to dedupQueue                                       *)
(*   sizes the size of the SubBucket at every entry of resolveRemoves      *)
(*   readd the addCard calls on a SubBucket that held the card already:    *)
(*         the SubBucket and the CardSubBucket cache before and after      *)
(*   evict how many times BucketSet.resolve has called removeSubBucket     *)
(*   res   the SubBucket.resolve calls: whether BucketSet.resolve evicted, *)
(*         bucketWasRemoved, cardWasRemoved, the canidates handed to       *)
(*         resolveUpdates and the keys of matching                         *)
(*   placed where processCard put the card: the card, matchedCards, the    *)
(*         bucketCandidates (object and cards before), addBucket, whether  *)
(*         it was created, its key and cards after, and the SubBuckets     *)
(*         that hold the card after                                        *)
(*   renames the renames of SubBucket.propogateKey: what the objects held   *)
(*         when it returned                                                *)
(*   seen  the getMatching calls: the card, the occurrences of each of its *)
(*         sentences in the index, and matchInfo after the loop            *)
(*   merges the merge calls that returned: both BucketSets before and     *)
(*         after, whether the first is the entity cached under its key,    *)
(*         whether the key of the second is in deletions, and the          *)
(*         bucketSetId of the SubBuckets of the first                      *)

NoKey == <<>>

NewContext(rd) ==
    [rd |-> rd, alone |-> FALSE, miss |-> NoKey, err |-> "", fuel |-> Fuel,
     sbH |-> <<>>, sbC |-> <<>>, sbD |-> <<>>,
     bsH |-> <<>>, bsC |-> <<>>, bsD |-> <<>>,
     csbC |-> <<>>, clC |-> <<>>, sC |-> <<>>,
     tx |-> <<>>, wat |-> {}, enq |-> <<>>,
     kind |-> "", updates |-> <<>>, deletes |-> <<>>, matched |-> <<>>, target |-> 0,
     sizes |-> <<>>, readd |-> <<>>, evict |-> 0, res |-> <<>>, merges |-> <<>>,
     placed |-> <<>>, seen |-> <<>>, renames |-> <<>>]

Halted(L) == L.miss # NoKey \/ L.err # ""

Throw(L, e) == IF Halted(L) THEN L ELSE [L EXCEPT !.err = e]

\* one nested call; a replay that runs out of fuel has diverged
Tick(L) ==
    IF Halted(L) THEN L
    ELSE IF L.fuel = 0 THEN [L EXCEPT !.err = "diverged"]
    ELSE [L EXCEPT !.fuel = @ - 1]

\* a context that never issues a WATCH
Watch_skip(L, k) == L

\* client.watch(key)
Watch(L, k) == IF Halted(L) THEN L ELSE [L EXCEPT !.wat = @ \cup {k}]

\* the WATCH and the read command of a key the cache does not hold
ReadKey(L, K) ==
    IF Halted(L) THEN [L |-> L, v |-> <<>>]
    ELSE IF L.alone THEN [L |-> Watch(L, StoreKey(K)), v |-> KVRead(L.rd, K)]
    ELSE IF K \in DOMAIN L.rd THEN [L |-> Watch(L, StoreKey(K)), v |-> L.rd[K]]
    ELSE [L |-> [L EXCEPT !.miss = K], v |-> <<>>]

\* transaction.<command>: queued until EXEC
Queue(L, cmd) == IF Halted(L) THEN L ELSE [L EXCEPT !.tx = Append(@, cmd)]

----------------------------------------------------------------------------
(* Repositories: get loads a key once and caches what it loaded *)

\* SubBucketRepository.fromRedis and the SubBucket constructor
SubBucket_fromRedis(obj, key) ==
    Let(SelectSeq(obj, LAMBDA e : e[1] = "c"), LAMBDA cards :
    Let(SelectSeq(obj, LAMBDA e : e[1] = "m"), LAMBDA matches :
        [cards |-> [i \in 1..Len(cards) |-> <<cards[i][2], cards[i][3]>>],
         matching |-> [i \in 1..Len(matches) |-> <<matches[i][2], matches[i][3]>>],
         bs |-> IF HashHas(obj, "bs", 0) THEN HashGet(obj, "bs", 0) ELSE key,
         key |-> MathMin([i \in 1..Len(cards) |-> cards[i][2]]),
         upd |-> FALSE]))

\* Repository.get / load of the SubBucketRepository: v is the object, 0 for null
SubBucket_get(L, key) ==
    IF Halted(L) THEN [L |-> L, v |-> 0]
    ELSE IF MHas(L.sbC, key) THEN [L |-> L, v |-> MGet(L.sbC, key)]
    ELSE Let(ReadKey(L, <<"SB", key>>), LAMBDA r :
         IF Halted(r.L) THEN [L |-> r.L, v |-> 0]
         ELSE IF r.v = <<>> THEN [L |-> [r.L EXCEPT !.sbC = MSet(@, key, 0)], v |-> 0]
         ELSE IF \E i \in 1..Len(r.v) : r.v[i][1] \notin {"c", "m", "bs"}
              THEN [L |-> Throw(r.L, "Invalid key loading SubBucket"), v |-> 0]
         ELSE [L |-> [r.L EXCEPT !.sbH = Append(@, SubBucket_fromRedis(r.v, key)),
                                 !.sbC = MSet(@, key, Len(r.L.sbH) + 1)],
               v |-> Len(r.L.sbH) + 1])

\* the BucketSet constructor
NewBucketSet(subBucketIds) ==
    [ids |-> uniq(subBucketIds), key |-> MathMin(subBucketIds),
     okey |-> MathMin(subBucketIds), upd |-> TRUE]

\* Repository.get with BucketSetRepository.loadRedis / fromRedis
BucketSet_get(L, key) ==
    IF Halted(L) THEN [L |-> L, v |-> 0]
    ELSE IF MHas(L.bsC, key) THEN [L |-> L, v |-> MGet(L.bsC, key)]
    ELSE Let(ReadKey(L, <<"BS", key>>), LAMBDA r :
         IF Halted(r.L) THEN [L |-> r.L, v |-> 0]
         ELSE [L |-> [r.L EXCEPT !.bsH = Append(@, NewBucketSet(IF r.v = <<>> THEN <<key>> ELSE r.v)),
                                 !.bsC = MSet(@, key, Len(r.L.bsH) + 1)],
               v |-> Len(r.L.bsH) + 1])

\* Repository.get with CardSubBucketRepository.fromRedis: the entity of a card is
\* [nul, sb, upd], nul for a null entity, sb the SubBucket object it refers to
CardSubBucket_get(L, card) ==
    IF Halted(L) \/ MHas(L.csbC, card) THEN L
    ELSE Let(ReadKey(L, <<"CSB", card>>), LAMBDA r :
         IF Halted(r.L) THEN r.L
         ELSE IF r.v = <<>> \/ ~HashHas(r.v, "sb", 0)
              THEN [r.L EXCEPT !.csbC = MSet(@, card, [nul |-> TRUE, sb |-> 0, upd |-> FALSE])]
         ELSE Let(SubBucket_get(r.L, HashGet(r.v, "sb", 0)), LAMBDA g :
              IF Halted(g.L) THEN g.L
              ELSE [g.L EXCEPT !.csbC = MSet(@, card, [nul |-> FALSE, sb |-> g.v, upd |-> FALSE])]))

CardSubBucket_getMany(L, cards) == FoldSeq(LAMBDA acc, c : CardSubBucket_get(acc, c), L, cards)

\* (entity)?.subBucket of a card whose entity is cached: 0 when there is none
subBucketOf(L, card) ==
    IF MHas(L.csbC, card) /\ ~MGet(L.csbC, card).nul THEN MGet(L.csbC, card).sb ELSE 0

\* Repository.get with CardLengthRepository.fromRedis: [nul, len, upd]
CardLength_get(L, card) ==
    IF Halted(L) \/ MHas(L.clC, card) THEN L
    ELSE Let(ReadKey(L, <<"CL", card>>), LAMBDA r :
         IF Halted(r.L) THEN r.L
         ELSE IF r.v = <<>>
              THEN [r.L EXCEPT !.clC = MSet(@, card, [nul |-> TRUE, len |-> 0, upd |-> FALSE])]
         ELSE [r.L EXCEPT !.clC = MSet(@, card,
                  [nul |-> FALSE,
                   len |-> IF HashHas(r.v, "l", 0) THEN HashGet(r.v, "l", 0) ELSE NaN,
                   upd |-> FALSE])])

CardLength_getMany(L, cards) == FoldSeq(LAMBDA acc, c : CardLength_get(acc, c), L, cards)

\* SentenceRepository.fromRedis: the records of the shard that carry the subKey
Sentence_fromRedis(data, sentence) ==
    Let(SelectSeq(data, LAMBDA rec : rec[1] = SentenceSubKey(sentence)), LAMBDA mine :
        [i \in 1..Len(mine) |-> <<mine[i][2], mine[i][3]>>])

\* Repository.get with SentenceRepository.loadRedis: [matches, adds, upd]
Sentence_get(L, sentence) ==
    IF Halted(L) \/ MHas(L.sC, sentence) THEN L
    ELSE Let(ReadKey(L, <<"S", sentence>>), LAMBDA r :
         IF Halted(r.L) THEN r.L
         ELSE [r.L EXCEPT !.sC = MSet(@, sentence,
                  [matches |-> Sentence_fromRedis(r.v, sentence), adds |-> <<>>, upd |-> FALSE])])

Sentence_getMany(L, sentences) == FoldSeq(LAMBDA acc, s : Sentence_get(acc, s), L, sentences)

\* Sentence.matches: what was loaded and what this unit of work added
Sentence_matches(L, sentence) == MGet(L.sC, sentence).matches \o MGet(L.sC, sentence).adds

----------------------------------------------------------------------------
(* The Matcher *)

\* a.cardLen - x <= tol with a NaN length (a card whose length is unknown)
checkMatch(a, b) ==
    \/ a.cardLen # NaN /\ a.cardLen > 3 /\ a.cardLen - (a.max + 1 - a.min) <= INSIDE_TOLERANCE
    \/ a.min <= EDGE_TOLERANCE /\ b.cardLen # NaN /\ b.cardLen - b.max <= EDGE_TOLERANCE

isMatch(info) == checkMatch(info.a, info.b) \/ checkMatch(info.b, info.a)

\* the single pass of getMatching over the occurrences of one sentence:
\* the first occurrence of a card sets min and max, a later one overwrites max
matchInfoStep(info, cardId, aLen, aIndex, cardLens, occ) ==
    IF occ[1] = cardId THEN info
    ELSE IF ~MHas(info, occ[1])
         THEN MSet(info, occ[1],
                   [a |-> [cardLen |-> aLen, min |-> aIndex, max |-> aIndex],
                    b |-> [cardLen |-> MGet(cardLens, occ[1]), min |-> occ[2], max |-> occ[2]]])
    ELSE MSet(info, occ[1], [a |-> [MGet(info, occ[1]).a EXCEPT !.max = aIndex],
                             b |-> [MGet(info, occ[1]).b EXCEPT !.max = occ[2]]])

\* the loop of getMatching over the sentences of the card and their occurrences
matchInfoOf(L, cardId, sentences, cardLens) ==
    FoldSeq(LAMBDA info, i :
                FoldSeq(LAMBDA inf, occ :
                            matchInfoStep(inf, cardId, Len(sentences), i - 1, cardLens, occ),
                        info, Sentence_matches(L, sentences[i])),
            <<>>, [i \in 1..Len(sentences) |-> i])

\* the ids of the cards the sentences occur in, first occurrences in order
canidateIdsOf(L, sentences) ==
    uniq(FoldSeq(LAMBDA acc, s : acc \o [j \in 1..Len(Sentence_matches(L, s)) |->
                                            Sentence_matches(L, s)[j][1]],
                 <<>>, sentences))

\* getMatching(context, cardId, sentences): v is [matches, existingSentences]
getMatching(L, cardId, sentences) ==
    Let(Sentence_getMany(L, sentences), LAMBDA L1 :
    IF Halted(L1) THEN [L |-> L1, v |-> [matches |-> <<>>, existingSentences |-> FALSE]]
    ELSE
    Let(canidateIdsOf(L1, sentences), LAMBDA canidateIds :
    Let(CardLength_getMany(L1, canidateIds), LAMBDA L2 :
    IF Halted(L2) THEN [L |-> L2, v |-> [matches |-> <<>>, existingSentences |-> FALSE]]
    ELSE IF \E i \in 1..Len(canidateIds) : MGet(L2.clC, canidateIds[i]).nul
         THEN [L |-> Throw(L2, "TypeError: length of null"),
               v |-> [matches |-> <<>>, existingSentences |-> FALSE]]
    ELSE
    Let(matchInfoOf(L2, cardId, sentences,
                    [i \in 1..Len(canidateIds) |->
                        <<canidateIds[i], MGet(L2.clC, canidateIds[i]).len>>]),
        LAMBDA matchInfo :
        [L |-> [L2 EXCEPT !.seen = Append(@,
                   [cardId |-> cardId,
                    matches |-> [i \in 1..Len(sentences) |->
                                    Sentence_matches(L2, sentences[i])],
                    matchInfo |-> matchInfo])],
         v |-> [matches |-> SelectSeq(SortSet(Range(MKeys(matchInfo))),
                                      LAMBDA id : isMatch(MGet(matchInfo, id))),
                existingSentences |-> SeqHas(canidateIds, cardId)]]))))

\* loadSentences(id): the normalized sentences of the card's fulltext
loadSentences(id) == db[id]

----------------------------------------------------------------------------
(* Repository: create, renameCacheKey, delete *)

\* Repository.delete: cache.set(key, null); deletions.add(key)
SubBucket_delete(L, key) ==
    IF Halted(L) THEN L
    ELSE [L EXCEPT !.sbC = MSet(@, key, 0), !.sbD = SeqAdd(@, key)]

BucketSet_delete(L, key) ==
    IF Halted(L) THEN L
    ELSE [L EXCEPT !.bsC = MSet(@, key, 0), !.bsD = SeqAdd(@, key)]

\* renameCacheKey that forgets the deletion of the old key
SubBucket_renameCacheKey_keep(L, oldKey, newKey) ==
    IF Halted(L) THEN L
    ELSE [L EXCEPT !.sbC = MSet(MSet(@, newKey, IF MHas(@, oldKey) THEN MGet(@, oldKey) ELSE 0),
                                oldKey, 0)]

\* Repository.renameCacheKey: cache.set(newKey, cache.get(oldKey)); delete(oldKey)
SubBucket_renameCacheKey(L, oldKey, newKey) ==
    IF Halted(L) THEN L
    ELSE SubBucket_delete(
             [L EXCEPT !.sbC = MSet(@, newKey, IF MHas(@, oldKey) THEN MGet(@, oldKey) ELSE 0)],
             oldKey)

BucketSet_renameCacheKey(L, oldKey, newKey) ==
    IF Halted(L) THEN L
    ELSE BucketSet_delete(
             [L EXCEPT !.bsC = MSet(@, newKey, IF MHas(@, oldKey) THEN MGet(@, oldKey) ELSE 0)],
             oldKey)

\* Repository.create of the BucketSetRepository: v is the new object
BucketSet_create(L, key, subBucketIds) ==
    IF Halted(L) THEN [L |-> L, v |-> 0]
    ELSE [L |-> [Watch(L, <<"BS", key>>) EXCEPT !.bsH = Append(@, NewBucketSet(subBucketIds)),
                                                !.bsC = MSet(@, key, Len(L.bsH) + 1)],
          v |-> Len(L.bsH) + 1]

\* CardSubBucketRepository.create: the entity is cached, no WATCH is issued
CardSubBucket_create(L, card, o) ==
    IF Halted(L) THEN L
    ELSE [L EXCEPT !.csbC = MSet(@, card, [nul |-> FALSE, sb |-> o, upd |-> TRUE])]

\* a reset that deletes the hash of the card, as Repository.delete does
CardSubBucket_reset_del(L, card) ==
    IF Halted(L) THEN L
    ELSE Queue([L EXCEPT !.csbC = MSet(@, card, [nul |-> TRUE, sb |-> 0, upd |-> FALSE])],
               <<"del", <<"C", card>>>>)

\* CardSubBucketRepository.reset: the card has no SubBucket any more; the sb field
\* of its hash is removed by the transaction
CardSubBucket_reset(L, card) ==
    IF Halted(L) THEN L
    ELSE Queue([L EXCEPT !.csbC = MSet(@, card, [nul |-> TRUE, sb |-> 0, upd |-> FALSE])],
               <<"hdel", <<"C", card>>, "sb", 0>>)

\* Repository.create of the CardLengthRepository
CardLength_create(L, card, length) ==
    IF Halted(L) THEN L
    ELSE [Watch(L, <<"C", card>>) EXCEPT
              !.clC = MSet(@, card, [nul |-> FALSE, len |-> length, upd |-> TRUE])]

\* one get of a getMany: the object is appended to v
getInto(acc, g) == [L |-> g.L, v |-> Append(acc.v, g.v)]

\* SubBucketRepository.getMany: v is the sequence of objects (0 for null)
SubBucket_getMany(L, keys) ==
    FoldSeq(LAMBDA acc, k : getInto(acc, SubBucket_get(acc.L, k)), [L |-> L, v |-> <<>>], keys)

----------------------------------------------------------------------------
(* BucketSet *)

\* the matching counts of cardSet(subBuckets): summed over the SubBuckets
addMatching(a, e) ==
    MSet(a, e[1], IF e[2] = NaN THEN NaN
                  ELSE IF ~MHas(a, e[1]) THEN e[2]
                  ELSE IF MGet(a, e[1]) = NaN THEN NaN
                  ELSE MGet(a, e[1]) + e[2])

\* cardSet(subBuckets): the members and the summed matching counts
cardSet(L, subBuckets) ==
    Let(uniq(FoldSeq(LAMBDA acc, o : acc \o MKeys(L.sbH[o].cards), <<>>, subBuckets)),
        LAMBDA members :
        [size |-> Len(members), members |-> members,
         matching |-> FoldSeq(LAMBDA acc, o : FoldSeq(addMatching, acc, L.sbH[o].matching),
                              <<>>, subBuckets)])

checkAdd(a, b) ==
    SHOULD_MERGE(Len(SelectSeq(b.members,
                               LAMBDA cardId : SHOULD_MERGE(MGet(a.matching, cardId), a.size))),
                 b.size)

shouldMerge(L, a, b) ==
    Force(cardSet(L, a), LAMBDA setA : checkAdd(setA, cardSet(L, b)))

BucketSet_getSubBuckets(L, b) == SubBucket_getMany(L, L.bsH[b].ids)

\* subBuckets.forEach((subBucket) => (subBucket.bucketSetId = key))
setBucketSetId(L, subBuckets, key) ==
    FoldSeq(LAMBDA acc, o : [acc EXCEPT !.sbH[o].bs = key, !.sbH[o].upd = TRUE], L, subBuckets)

\* createKey that takes the first member in the place of the smallest
BucketSet_createKey_first(L, b) == IF L.bsH[b].ids = <<>> THEN INF ELSE L.bsH[b].ids[1]

BucketSet_createKey(L, b) == MathMin(L.bsH[b].ids)

\* a BucketSet that keeps the key it was built with
BucketSet_propogateKey_stay(L, b) == L

BucketSet_propogateKey(L, b) ==
    IF Halted(L) THEN L
    ELSE IF L.bsH[b].key = BucketSet_createKey(L, b) THEN L
    ELSE Let(BucketSet_getSubBuckets(L, b), LAMBDA g :
         IF Halted(g.L) THEN g.L
         ELSE IF SeqHas(g.v, 0) THEN Throw(g.L, "TypeError: bucketSetId of null")
         ELSE [BucketSet_renameCacheKey(setBucketSetId(g.L, g.v, BucketSet_createKey(L, b)),
                                        L.bsH[b].key, BucketSet_createKey(L, b))
                  EXCEPT !.bsH[b].key = BucketSet_createKey(L, b)])

\* BucketSet.renameBucket (called renameSubBucket by SubBucket.propogateKey)
BucketSet_renameBucket(L, b, oldKey, newKey) ==
    IF Halted(L) THEN L
    ELSE BucketSet_propogateKey(
             [L EXCEPT !.bsH[b].upd = TRUE,
                       !.bsH[b].ids = SeqAdd(SeqDel(@, oldKey), newKey)], b)

\* a merge that leaves the subBucketIds of the merged bucket set in place
BucketSet_merge_keepIds(L, a, b) ==
    IF Halted(L) THEN L
    ELSE IF b = 0 THEN Throw(L, "TypeError: key of null")
    ELSE Let(BucketSet_getSubBuckets(
                 [BucketSet_delete(L, L.bsH[b].key) EXCEPT
                      !.bsH[a].upd = TRUE, !.bsH[a].ids = uniq(@ \o L.bsH[b].ids),
                      !.bsH[b].upd = TRUE], a),
             LAMBDA g :
             IF Halted(g.L) THEN g.L
             ELSE IF SeqHas(g.v, 0) THEN Throw(g.L, "TypeError: bucketSetId of null")
             ELSE BucketSet_propogateKey(setBucketSetId(g.L, g.v, g.L.bsH[a].key), a))

BucketSet_merge(L, a, b) ==
    IF Halted(L) THEN L
    ELSE IF b = 0 THEN Throw(L, "TypeError: key of null")
    ELSE Let(BucketSet_getSubBuckets(
                 [BucketSet_delete(L, L.bsH[b].key) EXCEPT
                      !.bsH[a].upd = TRUE, !.bsH[a].ids = uniq(@ \o L.bsH[b].ids),
                      !.bsH[b].upd = TRUE, !.bsH[b].ids = <<>>], a),
             LAMBDA g :
             IF Halted(g.L) THEN g.L
             ELSE IF SeqHas(g.v, 0) THEN Throw(g.L, "TypeError: bucketSetId of null")
             ELSE BucketSet_propogateKey(setBucketSetId(g.L, g.v, g.L.bsH[a].key), a))

\* thisBucketSet.shouldMerge(bucketSet): v is the verdict
BucketSet_shouldMerge(L, a, b) ==
    IF Halted(L) THEN [L |-> L, v |-> FALSE]
    ELSE IF a = 0 \/ b = 0 THEN [L |-> Throw(L, "TypeError: shouldMerge of null"), v |-> FALSE]
    ELSE Let(BucketSet_getSubBuckets(L, a), LAMBDA ga :
         Let(BucketSet_getSubBuckets(ga.L, b), LAMBDA gb :
             IF Halted(gb.L) THEN [L |-> gb.L, v |-> FALSE]
             ELSE IF SeqHas(ga.v, 0) \/ SeqHas(gb.v, 0)
                  THEN [L |-> Throw(gb.L, "TypeError: matching of null"), v |-> FALSE]
             ELSE [L |-> gb.L, v |-> shouldMerge(gb.L, ga.v, gb.v)]))

----------------------------------------------------------------------------
(* SubBucket *)

members(L, o) == MKeys(L.sbH[o].cards)
size(L, o) == Len(L.sbH[o].cards)

SubBucket_createKey(L, o) == MathMin(members(L, o))

SubBucket_getBucketSet(L, o) == BucketSet_get(L, L.sbH[o].bs)

doesBucketMatch(L, o, matches) ==
    SHOULD_MATCH(Len(intersection(matches, members(L, o))), size(L, o))

setMatches(L, o, id, matches) ==
    IF Halted(L) THEN L
    ELSE [L EXCEPT !.sbH[o].upd = TRUE,
                   !.sbH[o].matching = MSet(@, id, Len(intersection(members(L, o), matches)))]

\* one bucket set of a Set of bucket sets: v holds each object once
addInto(acc, g) == [L |-> g.L, v |-> SeqAdd(acc.v, g.v)]

\* the bucket sets of the SubBuckets, as a Set
getBucketSets(L, subBuckets) ==
    FoldSeq(LAMBDA acc, o : addInto(acc, SubBucket_getBucketSet(acc.L, o)),
            [L |-> L, v |-> <<>>], subBuckets)

RECURSIVE SubBucket_resolveUpdates(_, _, _)
RECURSIVE resolveUpdatesLoop(_, _, _, _, _)

\* for (const bucketSet of canidateBucketSets) of resolveUpdates, from the i-th on
resolveUpdatesLoop(L, o, thisBucketSet, canidateBucketSets, i) ==
    IF Halted(L) \/ i > Len(canidateBucketSets) THEN L
    ELSE Let(BucketSet_shouldMerge(L, thisBucketSet, canidateBucketSets[i]), LAMBDA t :
         IF Halted(t.L) THEN t.L
         ELSE IF t.v
              THEN Let(BucketSet_merge(t.L, thisBucketSet, canidateBucketSets[i]), LAMBDA L1 :
                   IF Halted(L1) THEN L1
                   ELSE SubBucket_resolveUpdates(
                            [L1 EXCEPT !.merges = Append(@,
                                 [preA |-> t.L.bsH[thisBucketSet],
                                  preB |-> t.L.bsH[canidateBucketSets[i]],
                                  a |-> L1.bsH[thisBucketSet],
                                  b |-> L1.bsH[canidateBucketSets[i]],
                                  cached |-> /\ MHas(L1.bsC, L1.bsH[thisBucketSet].key)
                                             /\ MGet(L1.bsC, L1.bsH[thisBucketSet].key)
                                                    = thisBucketSet,
                                  deleted |-> SeqHas(L1.bsD, t.L.bsH[canidateBucketSets[i]].key),
                                  bucketSetIds |->
                                      [j \in 1..Len(L1.bsH[thisBucketSet].ids) |->
                                          L1.sbH[MGet(L1.sbC, L1.bsH[thisBucketSet].ids[j])].bs]])],
                            o, MKeys(L1.sbH[o].matching)))
         ELSE resolveUpdatesLoop(t.L, o, thisBucketSet, canidateBucketSets, i + 1))

\* the SubBuckets of the canidates that are in another bucket set
canidateSubBucketsOf(L, o, canidates) ==
    SelectSeq(SelectSeq([i \in 1..Len(canidates) |-> subBucketOf(L, canidates[i])],
                        LAMBDA x : x # 0),
              LAMBDA x : L.sbH[x].bs # L.sbH[o].bs)

SubBucket_resolveUpdates(L0, o, canidates) ==
    Let(Tick(L0), LAMBDA L :
    IF Halted(L) THEN L
    ELSE Let(SubBucket_getBucketSet(L, o), LAMBDA tb :
         Let(CardSubBucket_getMany(tb.L, canidates), LAMBDA L1 :
         IF Halted(L1) THEN L1
         ELSE Let(getBucketSets(L1, canidateSubBucketsOf(L1, o, canidates)), LAMBDA cb :
              resolveUpdatesLoop(cb.L, o, tb.v, cb.v, 1)))))

BucketSet_removeSubBucket(L, b, o) ==
    IF Halted(L) THEN L
    ELSE Let(BucketSet_propogateKey(
                 [L EXCEPT !.bsH[b].upd = TRUE, !.bsH[b].ids = SeqDel(@, L.sbH[o].key)], b),
             LAMBDA L1 :
             IF Halted(L1) THEN L1
             ELSE Let(BucketSet_create(L1, L1.sbH[o].key, <<L1.sbH[o].key>>), LAMBDA c :
                  SubBucket_resolveUpdates(
                      [c.L EXCEPT !.sbH[o].bs = c.L.bsH[c.v].key, !.sbH[o].upd = TRUE],
                      o, MKeys(c.L.sbH[o].matching))))

\* propogateKey without the card.updated = true of its cards
markCardsUpdated_skip(L, cards) == L

\* cards.forEach((card) => (card.updated = true))
markCardsUpdated(L, cards) ==
    FoldSeq(LAMBDA acc, c : [acc EXCEPT !.csbC = MSet(@, c, [MGet(@, c) EXCEPT !.upd = TRUE])],
            L, cards)

\* propogateKey when no card is left: the SubBucket leaves its bucket set and is deleted
propogateKeyEmpty(L, o) ==
    Let(SubBucket_getBucketSet(L, o), LAMBDA g :
    IF Halted(g.L) THEN g.L
    ELSE IF g.v = 0 THEN Throw(g.L, "TypeError: removeSubBucket of null")
    ELSE Let(BucketSet_removeSubBucket(g.L, g.v, o), LAMBDA L2 :
         IF Halted(L2) THEN L2 ELSE SubBucket_delete(L2, L2.sbH[o].key)))

\* renameSubBucket is called without await: when SubBucket.propogateKey assigns
\* this.key and returns, the call has run up to the first await of
\* BucketSet.propogateKey (updated, subBucketIds, and the return when the key of the
\* set stays).  What the objects hold at that moment: the subBucketIds, the key of
\* the set, the key createKey gives, whether the cache holds the set under it, and
\* the bucketSetId of the cached SubBuckets of the set.
atReturn(L, b, o, newKey) ==
    Let([L EXCEPT !.bsH[b].ids = SeqAdd(SeqDel(@, L.sbH[o].key), newKey),
                  !.sbH[o].key = newKey],
        LAMBDA R :
        [oldKey |-> L.sbH[o].key, newKey |-> newKey,
         subBucketIds |-> R.bsH[b].ids,
         key |-> R.bsH[b].key,
         createKey |-> BucketSet_createKey(R, b),
         cached |-> /\ MHas(R.bsC, BucketSet_createKey(R, b))
                    /\ MGet(R.bsC, BucketSet_createKey(R, b)) = b,
         bucketSetIds |-> [i \in 1..Len(R.bsH[b].ids) |->
                              IF MHas(R.sbC, R.bsH[b].ids[i]) /\ MGet(R.sbC, R.bsH[b].ids[i]) # 0
                              THEN R.sbH[MGet(R.sbC, R.bsH[b].ids[i])].bs
                              ELSE R.bsH[b].key]])

\* propogateKey when the smallest card changed: the SubBucket is renamed
propogateKeyRename(L, o, newKey) ==
    IF \E i \in 1..Len(members(L, o)) : MGet(L.csbC, members(L, o)[i]).nul
    THEN Throw(L, "TypeError: updated of null")
    ELSE Let(SubBucket_getBucketSet(
                 SubBucket_renameCacheKey(markCardsUpdated(L, members(L, o)), L.sbH[o].key, newKey),
                 o),
             LAMBDA g :
             IF Halted(g.L) THEN g.L
             ELSE IF g.v = 0 THEN Throw(g.L, "TypeError: renameSubBucket of null")
             ELSE Let(BucketSet_renameBucket(g.L, g.v, g.L.sbH[o].key, newKey), LAMBDA L4 :
                  IF Halted(L4) THEN L4
                  ELSE [L4 EXCEPT !.sbH[o].key = newKey,
                                  !.renames = Append(@, atReturn(g.L, g.v, o, newKey))]))

SubBucket_propogateKey(L, o) ==
    IF Halted(L) THEN L
    ELSE IF SubBucket_createKey(L, o) = L.sbH[o].key THEN L
    ELSE Let(CardSubBucket_getMany(L, members(L, o)), LAMBDA L1 :
         IF Halted(L1) THEN L1
         ELSE IF members(L1, o) = <<>> THEN propogateKeyEmpty(L1, o)
         ELSE propogateKeyRename(L1, o, SubBucket_createKey(L1, o)))

\* the counter updates of addCard: for (const match of matches)
addCardCount(L, o, id, match) ==
    IF MHas(L.sbH[o].cards, match)
    THEN [L EXCEPT !.sbH[o].cards =
              Let(MSet(@, id, Plus1(MGet(@, id))), LAMBDA c1 :
                  MSet(c1, match, Plus1(MGet(c1, match))))]
    ELSE [L EXCEPT !.sbH[o].matching =
              MSet(@, match, IF MHas(@, match) THEN Plus1(MGet(@, match)) ELSE 1)]

\* an addCard that does not return when the SubBucket holds the card already
SubBucket_addCard_again(L, o, id, matches) ==
    IF Halted(L) THEN L
    ELSE SubBucket_propogateKey(
             CardSubBucket_create(
                 FoldSeq(LAMBDA acc, m : addCardCount(acc, o, id, m),
                         [L EXCEPT !.sbH[o].matching = MDel(@, id), !.sbH[o].upd = TRUE,
                                   !.sbH[o].cards = MSet(@, id, 1)],
                         matches),
                 id, o),
             o)

\* an addCard that leaves the id in matching
SubBucket_addCard_keepMatching(L, o, id, matches) ==
    IF Halted(L) THEN L
    ELSE IF MHas(L.sbH[o].cards, id) THEN L
    ELSE SubBucket_propogateKey(
             CardSubBucket_create(
                 FoldSeq(LAMBDA acc, m : addCardCount(acc, o, id, m),
                         [L EXCEPT !.sbH[o].upd = TRUE, !.sbH[o].cards = MSet(@, id, 1)],
                         matches),
                 id, o),
             o)

SubBucket_addCard(L, o, id, matches) ==
    IF Halted(L) THEN L
    ELSE IF MHas(L.sbH[o].cards, id) THEN [L EXCEPT !.sbH[o].matching = MDel(@, id)]
    ELSE SubBucket_propogateKey(
             CardSubBucket_create(
                 FoldSeq(LAMBDA acc, m : addCardCount(acc, o, id, m),
                         [L EXCEPT !.sbH[o].matching = MDel(@, id), !.sbH[o].upd = TRUE,
                                   !.sbH[o].cards = MSet(@, id, 1)],
                         matches),
                 id, o),
             o)

\* a removeCard that deletes every counter it should decrement
decrement_delete(counter, match) == MDel(counter, match)

\* a removeCard that leaves the counters of the matches as they are
decrement_keep(counter, match) == counter

\* the counter updates of removeCard: for (const match of matches)
decrement(counter, match) ==
    IF LeOne(MGet(counter, match)) THEN MDel(counter, match)
    ELSE MSet(counter, match, Minus1(MGet(counter, match)))

removeCardCount(L, o, match) ==
    IF MHas(L.sbH[o].cards, match)
    THEN [L EXCEPT !.sbH[o].cards = decrement(@, match)]
    ELSE [L EXCEPT !.sbH[o].matching = decrement(@, match)]

\* a removeCard that does not add the card to dedupQueue
Enqueue_skip(L, id) == L

\* dedupQueue.add(id)
Enqueue(L, id) == IF Halted(L) THEN L ELSE [L EXCEPT !.enq = Append(@, id)]

\* a removeCard that leaves the card in cards
SubBucket_removeCard_keep(L, o, id) ==
    IF Halted(L) THEN L
    ELSE Let(getMatching(CardSubBucket_reset([L EXCEPT !.sbH[o].upd = TRUE], id),
                         id, loadSentences(id)),
             LAMBDA g :
             IF Halted(g.L) THEN g.L
             ELSE SubBucket_propogateKey(
                      Enqueue(FoldSeq(LAMBDA acc, m : removeCardCount(acc, o, m), g.L, g.v.matches),
                              id),
                      o))

SubBucket_removeCard(L, o, id) ==
    IF Halted(L) THEN L
    ELSE Let(getMatching(CardSubBucket_reset(
                             [L EXCEPT !.sbH[o].upd = TRUE, !.sbH[o].cards = MDel(@, id)], id),
                         id, loadSentences(id)),
             LAMBDA g :
             IF Halted(g.L) THEN g.L
             ELSE SubBucket_propogateKey(
                      Enqueue(FoldSeq(LAMBDA acc, m : removeCardCount(acc, o, m), g.L, g.v.matches),
                              id),
                      o))

\* the first index in Map order that satisfies the test, 0 when there is none
FirstIndex(n, Test(_)) ==
    IF \E i \in 1..n : Test(i) THEN CHOOSE i \in 1..n : Test(i) /\ \A j \in 1..(i - 1) : ~Test(j)
    ELSE 0

\* resolveRemoves: v tells whether a card was removed
RECURSIVE SubBucket_resolveRemoves(_, _, _)
SubBucket_resolveRemoves(L0, o, hasBeenRemove) ==
    Let(Tick([L0 EXCEPT !.sizes = Append(@, size(L0, o))]), LAMBDA L :
    IF Halted(L) THEN [L |-> L, v |-> hasBeenRemove]
    ELSE Let(FirstIndex(size(L, o),
                        LAMBDA i : ~SHOULD_MATCH(L.sbH[o].cards[i][2], size(L, o))),
             LAMBDA first :
             IF first = 0 THEN [L |-> L, v |-> hasBeenRemove]
             ELSE SubBucket_resolveRemoves(
                      SubBucket_removeCard(L, o, L.sbH[o].cards[first][1]), o, TRUE)))

\* BucketSet.resolve: a member that would not be merged now is removed
RECURSIVE BucketSet_resolve(_, _)
BucketSet_resolve(L0, b) ==
    Let(Tick(L0), LAMBDA L :
    IF Halted(L) THEN L
    ELSE IF Len(L.bsH[b].ids) <= 1 THEN L
    ELSE Let(BucketSet_getSubBuckets(L, b), LAMBDA g :
         IF Halted(g.L) THEN g.L
         ELSE IF SeqHas(g.v, 0) THEN Throw(g.L, "TypeError: matching of null")
         ELSE Let(FirstIndex(Len(g.v),
                             LAMBDA i : ~shouldMerge(g.L, SelectSeq(g.v, LAMBDA x : x # g.v[i]),
                                                     <<g.v[i]>>)),
                  LAMBDA first :
                  IF first = 0 THEN g.L
                  ELSE Let(BucketSet_removeSubBucket([g.L EXCEPT !.evict = @ + 1], b, g.v[first]),
                           LAMBDA L2 : IF Halted(L2) THEN L2 ELSE BucketSet_resolve(L2, b)))))

\* BucketSet.resolve returns no value: bucketWasRemoved is undefined
bucketWasRemoved == FALSE

SubBucket_resolve(L, o, updates) ==
    IF Halted(L) THEN L
    ELSE Let(SubBucket_resolveRemoves(L, o, FALSE), LAMBDA r :
         Let(SubBucket_getBucketSet(r.L, o), LAMBDA g :
         IF Halted(g.L) THEN g.L
         ELSE IF g.v = 0 THEN Throw(g.L, "TypeError: resolve of null")
         ELSE Let(BucketSet_resolve(g.L, g.v), LAMBDA L1 :
              IF Halted(L1) THEN L1
              ELSE Let(IF r.v \/ bucketWasRemoved THEN MKeys(L1.sbH[o].matching)
                       ELSE SelectSeq(updates, LAMBDA id : MHas(L1.sbH[o].matching, id)),
                       LAMBDA canidates :
                       SubBucket_propogateKey(
                           SubBucket_resolveUpdates(
                               [L1 EXCEPT !.res = Append(@,
                                    [evicted |-> L1.evict > g.L.evict,
                                     bucketWasRemoved |-> bucketWasRemoved,
                                     cardWasRemoved |-> r.v,
                                     canidates |-> canidates,
                                     matching |-> MKeys(L1.sbH[o].matching)])],
                               o, canidates),
                           o)))))

\* SubBucketRepository.create / createNew: v is the new object
SubBucket_create(L, root, matches) ==
    IF Halted(L) THEN [L |-> L, v |-> 0]
    ELSE [L |-> [CardSubBucket_create(
                     [Watch(L, <<"SB", root>>) EXCEPT
                          !.sbH = Append(@, [cards |-> <<<<root, 1>>>>,
                                             matching |-> [i \in 1..Len(matches) |-> <<matches[i], 1>>],
                                             bs |-> root, key |-> root, upd |-> TRUE])],
                     root, Len(L.sbH) + 1)
                    EXCEPT !.sbC = MSet(@, root, Len(L.sbH) + 1)],
          v |-> Len(L.sbH) + 1]

----------------------------------------------------------------------------
(* The Processor *)

\* bucket.members of each SubBucket, flattened; undefined for a null SubBucket
flatMembers(L, subBuckets) ==
    FoldSeq(LAMBDA ms, o : IF o = 0 THEN Append(ms, Undef) ELSE ms \o members(L, o),
            <<>>, subBuckets)

\* { bucketId: bucketSet.key, cardIds } of one bucket set, appended to v.  finish
\* reads bucket?.members (optional); getConnectedBuckets reads subBucket.members
updateOf(acc, b, optional) ==
    IF Halted(acc.L) THEN acc
    ELSE IF b = 0 THEN [L |-> Throw(acc.L, "TypeError: key of null"), v |-> acc.v]
    ELSE Let(BucketSet_getSubBuckets(acc.L, b), LAMBDA g :
         IF Halted(g.L) THEN [L |-> g.L, v |-> acc.v]
         ELSE IF ~optional /\ SeqHas(g.v, 0)
              THEN [L |-> Throw(g.L, "TypeError: members of null"), v |-> acc.v]
         ELSE [L |-> g.L, v |-> Append(acc.v, <<g.L.bsH[b].key, flatMembers(g.L, g.v)>>)])

\* bucketSets.map((bucketSet) => ({ bucketId, cardIds })): v is the list of
\* <<bucketId, cardIds>>
updatesOf(L, bucketSets, optional) ==
    FoldSeq(LAMBDA acc, b : updateOf(acc, b, optional), [L |-> L, v |-> <<>>], bucketSets)

\* the SubBuckets of the bucket sets, added to visited
visitAll(L, visited, bucketSets) ==
    FoldSeq(LAMBDA acc, b : Let(BucketSet_getSubBuckets(acc.L, b),
                                LAMBDA g : [L |-> g.L, v |-> uniq(acc.v \o g.v)]),
            [L |-> L, v |-> visited], bucketSets)

\* the cards that match a visited SubBucket and are in none of them
newMatchesOf(L, visited) ==
    SelectSeq(uniq(FoldSeq(LAMBDA acc, o : acc \o MKeys(L.sbH[o].matching), <<>>, visited)),
              LAMBDA id : \A i \in 1..Len(visited) : ~MHas(L.sbH[visited[i]].cards, id))

\* the SubBuckets of the cards that are not visited yet
newSubBucketsOf(L, visited, newMatches) ==
    SelectSeq(uniq([i \in 1..Len(newMatches) |-> subBucketOf(L, newMatches[i])]),
              LAMBDA x : x # 0 /\ ~SeqHas(visited, x))

\* the return of getConnectedBuckets when nothing new was found
connectedUpdates(L, visited) ==
    Let(getBucketSets(L, visited), LAMBDA bs :
    Let(updatesOf(bs.L, bs.v, FALSE), LAMBDA u :
        IF Halted(u.L) THEN u.L
        ELSE [u.L EXCEPT !.kind = "reprocess", !.updates = u.v, !.deletes = <<>>]))

\* getConnectedBuckets(context, visited): the depth first search of the reprocess path
RECURSIVE getConnectedBuckets(_, _)
getConnectedBuckets(L0, visited) ==
    Let(Tick(L0), LAMBDA L :
    IF Halted(L) THEN L
    ELSE IF SeqHas(visited, 0) THEN Throw(L, "TypeError: members of null")
    ELSE Let(newMatchesOf(L, visited), LAMBDA newMatches :
         Let(CardSubBucket_getMany(L, newMatches), LAMBDA L1 :
         IF Halted(L1) THEN L1
         ELSE Let(newSubBucketsOf(L1, visited, newMatches), LAMBDA newSubBuckets :
              IF newSubBuckets = <<>> THEN connectedUpdates(L1, visited)
              ELSE Let(getBucketSets(L1, newSubBuckets), LAMBDA nb :
                   IF Halted(nb.L) THEN nb.L
                   ELSE IF SeqHas(nb.v, 0) THEN Throw(nb.L, "TypeError: getSubBuckets of null")
                   ELSE Let(visitAll(nb.L, visited, nb.v), LAMBDA all :
                            getConnectedBuckets(all.L, all.v)))))))

\* Repository.getUpdated: the cached entities (in cache order) that are updated
SubBucket_getUpdated(L) ==
    SelectSeq([i \in 1..Len(L.sbC) |-> L.sbC[i][2]], LAMBDA o : o # 0 /\ L.sbH[o].upd)

BucketSet_getUpdated(L) ==
    SelectSeq([i \in 1..Len(L.bsC) |-> L.bsC[i][2]], LAMBDA o : o # 0 /\ L.bsH[o].upd)

\* SubBucket.toRedis in the order of Object.entries: bs, the cards, the matching
SubBucket_toRedis(e) ==
    <<<<"bs", 0, e.bs>>>>
    \o [i \in 1..Len(e.cards) |-> <<"c", e.cards[i][1], e.cards[i][2]>>]
    \o [i \in 1..Len(e.matching) |-> <<"m", e.matching[i][1], e.matching[i][2]>>]

\* Repository.save: one hSet for every field of toRedis
hSets(K, fields) == [i \in 1..Len(fields) |-> <<"hset", K, fields[i][1], fields[i][2], fields[i][3]>>]

\* SubBucketRepository.saveAll: the deletions, then for every updated entity the del
\* of its key (queued when save is called), then the hSet of its fields
SubBucket_saveAll(L) ==
    Let(SubBucket_getUpdated(L), LAMBDA updated :
        [L EXCEPT !.sbD = <<>>,
                  !.tx = @ \o [i \in 1..Len(L.sbD) |-> <<"del", <<"SB", L.sbD[i]>>>>]
                           \o [i \in 1..Len(updated) |-> <<"del", <<"SB", L.sbH[updated[i]].key>>>>]
                           \o FoldSeq(LAMBDA acc, o :
                                          acc \o hSets(<<"SB", L.sbH[o].key>>,
                                                       SubBucket_toRedis(L.sbH[o])),
                                      <<>>, updated)])

CardLength_saveAll(L) ==
    Let(SelectSeq(L.clC, LAMBDA e : ~e[2].nul /\ e[2].upd), LAMBDA updated :
        [L EXCEPT !.tx = @ \o [i \in 1..Len(updated) |->
                                  <<"hset", <<"C", updated[i][1]>>, "l", 0, updated[i][2].len>>]])

\* CardSubBucket.toRedis reads subBucket.key when the entity is saved
CardSubBucket_saveAll(L) ==
    Let(SelectSeq(L.csbC, LAMBDA e : ~e[2].nul /\ e[2].upd), LAMBDA updated :
        IF \E i \in 1..Len(updated) : updated[i][2].sb = 0
        THEN Throw(L, "TypeError: key of null")
        ELSE [L EXCEPT !.tx = @ \o [i \in 1..Len(updated) |->
                                       <<"hset", <<"C", updated[i][1]>>, "sb", 0,
                                         L.sbH[updated[i][2].sb].key>>]])

\* Sentence.toRedis: the records of the additions
Sentence_toRedis(sentence, e) ==
    [j \in 1..Len(e.adds) |-> <<SentenceSubKey(sentence), e.adds[j][1], e.adds[j][2]>>]

\* SentenceRepository.save: the additions are appended to the shard
Sentence_saveAll(L) ==
    Let(SelectSeq(L.sC, LAMBDA e : e[2].upd), LAMBDA updated :
        [L EXCEPT !.tx = @ \o [i \in 1..Len(updated) |->
                                  <<"append", <<"S", SentenceBucket(updated[i][1])>>,
                                    Sentence_toRedis(updated[i][1], updated[i][2])>>]])

\* a save that writes the set of a single member too
BucketSet_save_single(e) ==
    <<<<"del", <<"BS", e.okey>>>>>>
    \o (IF e.ids = <<>> THEN <<>> ELSE <<<<"sadd", <<"BS", e.key>>, Range(e.ids)>>>>)

\* BucketSetRepository.save: del of the original key; a set of one member is not written
BucketSet_save(e) ==
    <<<<"del", <<"BS", e.okey>>>>>>
    \o (IF Len(e.ids) <= 1 THEN <<>> ELSE <<<<"sadd", <<"BS", e.key>>, Range(e.ids)>>>>)

BucketSet_saveAll(L) ==
    [L EXCEPT !.bsD = <<>>,
              !.tx = @ \o [i \in 1..Len(L.bsD) |-> <<"del", <<"BS", L.bsD[i]>>>>]
                       \o FoldSeq(LAMBDA acc, o : acc \o BucketSet_save(L.bsH[o]),
                                  <<>>, BucketSet_getUpdated(L))]

\* the saveAll calls of finish, in their order
saveAll(L) ==
    IF Halted(L) THEN L
    ELSE Let(CardSubBucket_saveAll(CardLength_saveAll(SubBucket_saveAll(L))), LAMBDA L1 :
             IF Halted(L1) THEN L1 ELSE BucketSet_saveAll(Sentence_saveAll(L1)))

\* RedisContext.finish up to EXEC
finish(L) ==
    IF Halted(L) THEN L
    ELSE Let(getBucketSets(L, SubBucket_getUpdated(L)), LAMBDA bs :
         IF Halted(bs.L) THEN bs.L
         ELSE Let(updatesOf(bs.L, uniq(bs.v \o BucketSet_getUpdated(bs.L)), TRUE), LAMBDA u :
              IF Halted(u.L) THEN u.L
              ELSE saveAll([u.L EXCEPT !.updates = u.v, !.deletes = u.L.bsD, !.kind = "commit"])))

\* a reprocess path that ends in context.finish() like the other path
reprocess_finish(L, cardSubBucket) ==
    Let(SubBucket_getBucketSet(L, cardSubBucket), LAMBDA g :
    IF Halted(g.L) THEN g.L
    ELSE IF g.v = 0 THEN Throw(g.L, "TypeError: getSubBuckets of null")
    ELSE Let(BucketSet_getSubBuckets(g.L, g.v), LAMBDA sb :
             finish(getConnectedBuckets(sb.L, uniq(sb.v)))))

\* the reprocess path of processCard
reprocess(L, cardSubBucket) ==
    Let(SubBucket_getBucketSet(L, cardSubBucket), LAMBDA g :
    IF Halted(g.L) THEN g.L
    ELSE IF g.v = 0 THEN Throw(g.L, "TypeError: getSubBuckets of null")
    ELSE Let(BucketSet_getSubBuckets(g.L, g.v), LAMBDA sb :
             getConnectedBuckets(sb.L, uniq(sb.v))))

\* entity.addMatch({ matchId: id, index: i }) for every sentence of the card
addMatches(L, id, sentences) ==
    FoldSeq(LAMBDA acc, i :
                [acc EXCEPT !.sC = MSet(@, sentences[i],
                     [MGet(@, sentences[i]) EXCEPT !.upd = TRUE,
                                                   !.adds = Append(@, <<id, i - 1>>)])],
            L, [i \in 1..Len(sentences) |-> i])

\* a processCard that adds the sentences of the card whether or not the index has them
addSentences_always(L, id, sentences, existingSentences) ==
    IF Halted(L) THEN L
    ELSE Let(Sentence_getMany(L, sentences), LAMBDA L1 :
             IF Halted(L1) THEN L1 ELSE addMatches(L1, id, sentences))

\* if (!existingSentences) the sentences of the card are added to the index
addSentences(L, id, sentences, existingSentences) ==
    IF Halted(L) \/ existingSentences THEN L
    ELSE Let(Sentence_getMany(L, sentences), LAMBDA L1 :
             IF Halted(L1) THEN L1 ELSE addMatches(L1, id, sentences))

\* the first bucket, whatever its size
maxBySize_first(L, buckets) == buckets[1]

\* maxBy(matchedBuckets, (b) => b.size): the first of the largest
maxBySize(L, buckets) ==
    buckets[CHOOSE i \in 1..Len(buckets) :
                /\ \A j \in 1..Len(buckets) : size(L, buckets[j]) <= size(L, buckets[i])
                /\ \A j \in 1..(i - 1) : size(L, buckets[j]) < size(L, buckets[i])]

\* the SubBuckets of the matched cards
bucketCandidatesOf(L, matchedCards) ==
    SelectSeq(uniq([i \in 1..Len(matchedCards) |-> subBucketOf(L, matchedCards[i])]),
              LAMBDA x : x # 0)

\* the card goes to a new SubBucket, or to the largest SubBucket it matches: v is addBucket
place(L, id, matchedCards, matchedBuckets) ==
    IF matchedBuckets = <<>> THEN SubBucket_create(L, id, matchedCards)
    ELSE Let(maxBySize(L, matchedBuckets), LAMBDA addBucket :
         Let(SubBucket_addCard(L, addBucket, id, matchedCards), LAMBDA L1 :
             [L |-> IF Halted(L1) \/ ~MHas(L.sbH[addBucket].cards, id) THEN L1
                    ELSE [L1 EXCEPT !.readd = Append(@, [id |-> id,
                                                         pre |-> L.sbH[addBucket],
                                                         post |-> L1.sbH[addBucket],
                                                         csbPre |-> L.csbC,
                                                         csbPost |-> L1.csbC])],
              v |-> addBucket]))

\* processCard from the buckets of the matched cards to context.finish()
cluster(L, id, sentences, matchedCards, existingSentences) ==
    Let(bucketCandidatesOf(L, matchedCards), LAMBDA bucketCandidates :
    Let(FoldSeq(LAMBDA acc, b : setMatches(acc, b, id, matchedCards), L, bucketCandidates),
        LAMBDA L4 :
    Let(place(L4, id, matchedCards,
              SelectSeq(bucketCandidates, LAMBDA b : doesBucketMatch(L4, b, matchedCards))),
        LAMBDA p :
    Let(SubBucket_resolve(
            IF Halted(p.L) THEN p.L
            ELSE [p.L EXCEPT !.placed = Append(@,
                         [id |-> id, matchedCards |-> matchedCards,
                          bucketCandidates |->
                              [i \in 1..Len(bucketCandidates) |->
                                  [o |-> bucketCandidates[i],
                                   cards |-> Range(MKeys(L4.sbH[bucketCandidates[i]].cards))]],
                          addBucket |-> p.v,
                          created |-> p.v > Len(L4.sbH),
                          key |-> p.L.sbH[p.v].key,
                          cards |-> Range(MKeys(p.L.sbH[p.v].cards)),
                          holders |-> {o \in 1..Len(p.L.sbH) : MHas(p.L.sbH[o].cards, id)}])],
            p.v, matchedCards),
        LAMBDA L6 :
    IF Halted(L6) THEN L6
    ELSE Let(addSentences(L6, id, sentences, existingSentences), LAMBDA L7 :
         IF Halted(L7) THEN L7
         ELSE finish([L7 EXCEPT !.matched = matchedCards, !.target = p.v]))))))

\* the body of processCard inside executeIsolated, for a card with sentences
processCard(L, id, sentences) ==
    Let(CardSubBucket_get(L, id), LAMBDA L1 :
    IF Halted(L1) THEN L1
    ELSE IF subBucketOf(L1, id) # 0 THEN reprocess(L1, subBucketOf(L1, id))
    ELSE Let(getMatching(CardLength_create(L1, id, Len(sentences)), id, sentences), LAMBDA m :
         IF Halted(m.L) THEN m.L
         ELSE Let(CardSubBucket_getMany(m.L, m.v.matches), LAMBDA L3 :
              IF Halted(L3) THEN L3
              ELSE cluster(L3, id, sentences, m.v.matches, m.v.existingSentences))))

\* the replay of a unit of work over the values read so far
Run(id, rd) == processCard(NewContext(rd), id, loadSentences(id))

----------------------------------------------------------------------------
(* EXEC: the queued commands applied to the store.  touched collects the   *)
(* keys the commands modified, which is what invalidates a WATCH.          *)

ApplyCmd(acc, cmd) ==
    LET store == acc.kv
        K == cmd[2]
        has == K \in DOMAIN store
    IN CASE cmd[1] = "del" ->
              IF has THEN [kv |-> Drop(store, K), touched |-> acc.touched \cup {K}] ELSE acc
         [] cmd[1] = "hset" ->
              [kv |-> Put(store, K, HashSet(IF has THEN store[K] ELSE <<>>, cmd[3], cmd[4], cmd[5])),
               touched |-> acc.touched \cup {K}]
         [] cmd[1] = "hdel" ->
              IF has /\ HashHas(store[K], cmd[3], cmd[4])
              THEN LET h == HashDel(store[K], cmd[3], cmd[4])
                   IN [kv |-> IF h = <<>> THEN Drop(store, K) ELSE Put(store, K, h),
                       touched |-> acc.touched \cup {K}]
              ELSE acc
         [] cmd[1] = "sadd" ->
              IF has /\ cmd[3] \subseteq store[K] THEN acc
              ELSE [kv |-> Put(store, K, (IF has THEN store[K] ELSE {}) \cup cmd[3]),
                    touched |-> acc.touched \cup {K}]
         [] cmd[1] = "append" ->
              [kv |-> Put(store, K, (IF has THEN store[K] ELSE <<>>) \o cmd[3]),
               touched |-> acc.touched \cup {K}]

ApplyTx(store, tx) == FoldSeq(ApplyCmd, [kv |-> store, touched |-> {}], tx)

\* a unit of work that runs with no other context: every read is served at once
RunAlone(id, store) ==
    processCard([NewContext(store) EXCEPT !.alone = TRUE], id, loadSentences(id))

\* what a step keeps of a replay; sb: the SubBucket objects of the context; bs: the
\* BucketSet objects that bucketSetRepository.saveAll saves
Outcome(L) ==
    [miss |-> L.miss, err |-> L.err, kind |-> L.kind, tx |-> L.tx, wat |-> L.wat,
     enq |-> L.enq, updates |-> L.updates, deletes |-> L.deletes, matched |-> L.matched,
     sb |-> L.sbH, sizes |-> L.sizes, readd |-> L.readd, res |-> L.res,
     merges |-> L.merges, placed |-> L.placed, seen |-> L.seen, renames |-> L.renames,
     bs |-> Let(BucketSet_getUpdated(L), LAMBDA u : [i \in 1..Len(u) |-> L.bsH[u[i]]])]

----------------------------------------------------------------------------
(* The workers.  Every process drains its own dedupQueue, one card at a    *)
(* time; the processes share the key-value store.                          *)

Workers == 1..NumCtx

NoRun == Outcome(NewContext(<<>>))

\* A worker and the isolated connection the pool hands it.  st: idle, run (inside
\* processCard) or dead (drain rejected); rd: the values read by this attempt; wat:
\* the keys WATCHed by this attempt; dirty: one of them was modified; left: the keys
\* earlier units left WATCHed on the connection; stale: one of those was modified;
\* enqDone: how many dedupQueue.add calls of this attempt have been made
Idle == [st |-> "idle", card |-> 0, rd |-> <<>>, wat |-> {}, dirty |-> FALSE,
         left |-> {}, stale |-> FALSE, enqDone |-> 0, tries |-> 0]

NoHist == [kind |-> "init", w |-> 0, card |-> 0, pre |-> <<>>, out |-> NoRun,
           rd |-> <<>>, alone |-> NoRun, enq |-> <<>>, tries |-> 0,
           dirty |-> FALSE, stale |-> FALSE]

\* new Repository(context) as the call-by-call view of a repository has it (see
\* below): an empty cache; key 1 has a hash in the store
NewRepository ==
    [stored |-> {1}, cache |-> <<>>, deletions |-> {}, loads |-> {},
     reads |-> [k \in {} |-> 0], set |-> <<>>, got |-> <<>>, next |-> 1, calls |-> 0]

\* evidence stores and the cards queued by each process
Scenarios ==
    << [db |-> << <<1, 3>>, <<1>>, <<3>> >>, queue |-> << <<1, 2, 1>>, <<3>> >>],
       [db |-> << <<1>>, <<1, 3>>, <<1, 3, 5>>, <<3, 5>>, <<3, 5>>, <<5>> >>,
        queue |-> << <<1, 2, 3, 4, 5, 6>>, <<>> >>],
       [db |-> << <<5, 1, 3>>, <<1, 3, 7>>, <<5, 3, 1>>, <<5, 1, 7>>, <<1, 7>>,
                  <<3, 5, 1>>, <<1, 5>> >>,
        queue |-> << <<1, 2, 3, 4, 5, 6, 7>>, <<>> >>],
       [db |-> << <<1, 3, 7>>, <<5, 3, 1>>, <<3>>, <<1, 5>>, <<5, 3, 7>>, <<7, 1, 3>>,
                  <<3, 7>>, <<3, 1>> >>,
        queue |-> << <<1, 2, 3, 4, 5, 6, 7, 8>>, <<>> >>],
       [db |-> << <<1>>, <<2>> >>, queue |-> << <<1>>, <<2>> >>],
       [db |-> << <<3, 2, 5>>, <<3, 5>>, <<3>>, <<3>> >>,
        queue |-> << <<4, 1>>, <<3, 2>> >>],
       [db |-> << <<1>>, <<3>>, <<1>> >>, queue |-> << <<1, 1, 2>>, <<3>> >>],
       [db |-> << <<1, 5>>, <<1, 5>>, <<5, 3, 1>>, <<1, 5>> >>,
        queue |-> << <<1, 2, 3, 4>>, <<>> >>],
       [db |-> << <<1>>, <<1>>, <<1>> >>, queue |-> << <<2, 3, 1>>, <<1>> >>],
       [db |-> << <<1>>, <<1, 3>>, <<1, 3, 5>>, <<3, 5>>, <<3, 5>>, <<5>>, <<6>> >>,
        queue |-> << <<1, 2, 3, 4, 5, 6>>, <<7>> >>] >>

Init ==
    \E i \in 1..Len(Scenarios) :
        /\ db = Scenarios[i].db
        /\ queue = [w \in Workers |-> IF w <= Len(Scenarios[i].queue)
                                      THEN Scenarios[i].queue[w] ELSE <<>>]
        /\ kv = <<>>
        /\ ctx = [w \in Workers |-> Idle]
        /\ hist = NoHist
        /\ shard = <<>>
        /\ appended = <<>>
        /\ repo = NewRepository

\* drain: dequeue a card and call processCard
Dequeue(w) ==
    /\ ctx[w].st = "idle"
    /\ queue[w] # <<>>
    /\ queue' = [queue EXCEPT ![w] = Tail(@)]
    /\ IF db[Head(queue[w])] = <<>>
       THEN /\ hist' = [NoHist EXCEPT !.kind = "trivial", !.w = w, !.card = Head(queue[w]),
                                      !.pre = kv,
                                      !.out.updates = <<<<Head(queue[w]), <<Head(queue[w])>>>>>>]
            /\ UNCHANGED ctx
       ELSE /\ ctx' = [ctx EXCEPT ![w] = [Idle EXCEPT !.st = "run", !.card = Head(queue[w]),
                                                   !.left = ctx[w].left,
                                                   !.stale = ctx[w].stale]]
            /\ hist' = [NoHist EXCEPT !.kind = "start", !.w = w, !.card = Head(queue[w]),
                                      !.pre = kv]
    /\ UNCHANGED <<db, kv, shard, appended, repo>>

\* the cards the attempt added to dedupQueue since the last step
NewlyEnqueued(w, out) == SubSeq(out.enq, ctx[w].enqDone + 1, Len(out.enq))

Event(w, out, kind) ==
    [NoHist EXCEPT !.kind = kind, !.w = w, !.card = ctx[w].card, !.pre = kv,
                   !.out = out, !.rd = ctx[w].rd, !.enq = NewlyEnqueued(w, out),
                   !.tries = ctx[w].tries, !.dirty = ctx[w].dirty,
                   !.stale = ctx[w].stale]

\* a read that is not preceded by WATCH
Read_unwatched(w, out) ==
    /\ out.miss # NoKey
    /\ ctx' = [ctx EXCEPT ![w].rd = Put(@, out.miss, KVRead(kv, out.miss)),
                          ![w].wat = out.wat,
                          ![w].enqDone = Len(out.enq)]
    /\ queue' = [queue EXCEPT ![w] = @ \o NewlyEnqueued(w, out)]
    /\ hist' = Event(w, out, "read")
    /\ UNCHANGED <<db, kv>>

\* a read that WATCHes every key but the sentence shards
Read_shardUnwatched(w, out) ==
    /\ out.miss # NoKey
    /\ ctx' = [ctx EXCEPT ![w].rd = Put(@, out.miss, KVRead(kv, out.miss)),
                          ![w].wat = out.wat \cup
                                     (IF out.miss[1] = "S" THEN {} ELSE {StoreKey(out.miss)}),
                          ![w].enqDone = Len(out.enq)]
    /\ queue' = [queue EXCEPT ![w] = @ \o NewlyEnqueued(w, out)]
    /\ hist' = Event(w, out, "read")
    /\ UNCHANGED <<db, kv>>

\* the computation up to the next read, then WATCH key and the read of key
Read(w, out) ==
    /\ out.miss # NoKey
    /\ ctx' = [ctx EXCEPT ![w].rd = Put(@, out.miss, KVRead(kv, out.miss)),
                          ![w].wat = out.wat \cup {StoreKey(out.miss)},
                          ![w].enqDone = Len(out.enq)]
    /\ queue' = [queue EXCEPT ![w] = @ \o NewlyEnqueued(w, out)]
    /\ hist' = Event(w, out, "read")
    /\ UNCHANGED <<db, kv>>

\* a catch that treats every error as a WatchError and processes the card again
Fail_retry(w, out) ==
    /\ out.miss = NoKey
    /\ out.err # ""
    /\ ctx' = [ctx EXCEPT ![w] = [Idle EXCEPT !.st = "run", !.card = ctx[w].card,
                                              !.tries = IF ctx[w].tries < MaxRetry
                                                        THEN ctx[w].tries + 1 ELSE MaxRetry]]
    /\ queue' = [queue EXCEPT ![w] = @ \o NewlyEnqueued(w, out)]
    /\ hist' = Event(w, out, "error")
    /\ UNCHANGED <<db, kv>>

\* an error other than WatchError: the client quits, processCard and drain reject
Fail(w, out) ==
    /\ out.miss = NoKey
    /\ out.err # ""
    /\ ctx' = [ctx EXCEPT ![w] = [Idle EXCEPT !.st = "dead", !.card = ctx[w].card]]
    /\ queue' = [queue EXCEPT ![w] = @ \o NewlyEnqueued(w, out)]
    /\ hist' = Event(w, out, "error")
    /\ UNCHANGED <<db, kv>>

\* the reprocess path returns what getConnectedBuckets found: there is no EXEC, no
\* UNWATCH and no quit, and the connection goes back to the pool as it is
Return(w, out) ==
    /\ out.miss = NoKey
    /\ out.err = ""
    /\ out.kind = "reprocess"
    /\ ctx' = [ctx EXCEPT ![w] = [Idle EXCEPT !.left = ctx[w].left \cup out.wat,
                                              !.stale = ctx[w].stale \/ ctx[w].dirty]]
    /\ queue' = [queue EXCEPT ![w] = @ \o NewlyEnqueued(w, out)]
    /\ hist' = Event(w, out, "reprocess")
    /\ UNCHANGED <<db, kv>>

\* a retry that keeps the RedisContext of the failed attempt
Conflict_keep(w, out) ==
    /\ out.miss = NoKey
    /\ out.err = ""
    /\ out.kind = "commit"
    /\ ctx[w].dirty \/ ctx[w].stale
    /\ ctx' = [ctx EXCEPT ![w].dirty = FALSE, ![w].stale = FALSE, ![w].left = {},
                          ![w].tries = IF ctx[w].tries < MaxRetry
                                       THEN ctx[w].tries + 1 ELSE MaxRetry]
    /\ queue' = [queue EXCEPT ![w] = @ \o NewlyEnqueued(w, out)]
    /\ hist' = Event(w, out, "retry")
    /\ UNCHANGED <<db, kv>>

\* a retry whose connection still holds the invalidated WATCHes of the failed EXEC
Conflict_again(w, out) ==
    /\ out.miss = NoKey
    /\ out.err = ""
    /\ out.kind = "commit"
    /\ ctx[w].dirty \/ ctx[w].stale
    /\ ctx' = [ctx EXCEPT ![w] = [Idle EXCEPT !.st = "run", !.card = ctx[w].card,
                                              !.dirty = TRUE,
                                              !.tries = IF ctx[w].tries < MaxRetry
                                                        THEN ctx[w].tries + 1 ELSE MaxRetry]]
    /\ queue' = [queue EXCEPT ![w] = @ \o NewlyEnqueued(w, out)]
    /\ hist' = Event(w, out, "retry")
    /\ UNCHANGED <<db, kv>>

\* EXEC fails with WatchError: processCard calls itself, with a new RedisContext
Conflict(w, out) ==
    /\ out.miss = NoKey
    /\ out.err = ""
    /\ out.kind = "commit"
    /\ ctx[w].dirty \/ ctx[w].stale
    /\ ctx' = [ctx EXCEPT ![w] = [Idle EXCEPT !.st = "run", !.card = ctx[w].card,
                                              !.tries = IF ctx[w].tries < MaxRetry
                                                        THEN ctx[w].tries + 1 ELSE MaxRetry]]
    /\ queue' = [queue EXCEPT ![w] = @ \o NewlyEnqueued(w, out)]
    /\ hist' = Event(w, out, "retry")
    /\ UNCHANGED <<db, kv>>

\* the keys a transaction modified invalidate the WATCHes of every other connection:
\* those of the unit running on it and those earlier units left on it
Invalidate(w, touched) ==
    [o \in Workers |->
        IF o = w THEN Idle
        ELSE [ctx[o] EXCEPT
                 !.dirty = @ \/ (ctx[o].st = "run" /\ ctx[o].wat \cap touched # {}),
                 !.stale = @ \/ ctx[o].left \cap touched # {}]]

\* EXEC succeeds: the queued commands are applied atomically
Commit(w, out) ==
    /\ out.miss = NoKey
    /\ out.err = ""
    /\ out.kind = "commit"
    /\ ~ctx[w].dirty
    /\ ~ctx[w].stale
    /\ \E r \in {ApplyTx(kv, out.tx)} :
          /\ kv' = r.kv
          /\ ctx' = Invalidate(w, r.touched)
    /\ queue' = [queue EXCEPT ![w] = @ \o NewlyEnqueued(w, out)]
    /\ hist' = [Event(w, out, "commit") EXCEPT !.alone = Outcome(RunAlone(ctx[w].card, kv))]
    /\ UNCHANGED db

\* one step of a worker inside processCard
Step(w) ==
    /\ ctx[w].st = "run"
    /\ \E out \in {Outcome(Run(ctx[w].card, ctx[w].rd))} :
          \/ Read(w, out)
          \/ Fail(w, out)
          \/ Return(w, out)
          \/ Conflict(w, out)
          \/ Commit(w, out)
    /\ UNCHANGED <<shard, appended, repo>>

Next == \E w \in Workers : Dequeue(w) \/ Step(w)

Spec == Init /\ [][Next]_vars

----------------------------------------------------------------------------
(* The encoding of a sentence shard, byte by byte.  A hexadecimal string is *)
(* the sequence of its digits (0..15), a Buffer the sequence of its bytes,  *)
(* a subKey the ten digits of hash.slice(5, 15).                            *)

SUBKEY_BYTES == 5
CARDID_BYTES == 4
INDEX_BYTES == 2
RECORD_BYTES == 11

MaxRecords == 3    \* records appended to the shard

\* paddedHex: num.toString(16).padStart(len, '0') pads and never truncates
paddedHex(num, len) ==
    LET RECURSIVE toString16(_)
        toString16(n) == IF n < 16 THEN <<n>> ELSE Append(toString16(n \div 16), n % 16)
    IN  Let(toString16(num), LAMBDA h :
            IF Len(h) >= len THEN h ELSE [i \in 1..(len - Len(h)) |-> 0] \o h)

\* Sentence.toRedis: the additions, each subKey + paddedHex(cardId, 8) +
\* paddedHex(index, 4), joined
toRedisHex(subKey, additions) ==
    FoldSeq(LAMBDA acc, a : acc \o subKey \o paddedHex(a[1], 2 * CARDID_BYTES)
                                \o paddedHex(a[2], 2 * INDEX_BYTES),
            <<>>, additions)

\* Buffer.from(string, 'hex'): one byte for every pair of digits; a last digit
\* without a pair is dropped
BufferFromHex(hex) == [i \in 1..(Len(hex) \div 2) |-> 16 * hex[2 * i - 1] + hex[2 * i]]

\* SentenceRepository.fromRedis on the bytes of a shard: err when the length is no
\* multiple of 11, else the <<cardId, index>> of the records that carry the subKey
fromRedisBytes(data, subKey) ==
    LET \* data.readUIntBE(offset, byteLength), offset counted from 0
        readUIntBE(offset, byteLength) ==
            FoldSeq(LAMBDA acc, b : 256 * acc + b, 0,
                    SubSeq(data, offset + 1, offset + byteLength))
    IN
    IF Len(data) % RECORD_BYTES # 0 THEN [err |-> TRUE, matches |-> <<>>]
    ELSE [err |-> FALSE,
          matches |->
              FoldSeq(LAMBDA acc, r :
                          IF SubSeq(data, RECORD_BYTES * (r - 1) + 1,
                                    RECORD_BYTES * (r - 1) + SUBKEY_BYTES)
                                 # BufferFromHex(subKey)
                          THEN acc
                          ELSE Append(acc,
                                   <<readUIntBE(RECORD_BYTES * (r - 1) + SUBKEY_BYTES,
                                                CARDID_BYTES),
                                     readUIntBE(RECORD_BYTES * (r - 1) + SUBKEY_BYTES
                                                          + CARDID_BYTES, INDEX_BYTES)>>),
                      <<>>, [r \in 1..(Len(data) \div RECORD_BYTES) |-> r])]

\* the updated Sentence entities a unit of work may save: a subKey with one or two
\* additions <<cardId, index>>; 65535 is the largest index that two bytes hold
Sentences ==
    LET occurrences == {1, 300} \X {0, 65535, 65536}
    IN  [subKey : {<<0, 0, 0, 0, 0, 0, 0, 0, 0, 1>>, <<0, 0, 0, 0, 0, 0, 0, 0, 2, 0>>},
         additions : {<<a>> : a \in occurrences} \cup
                     {<<a, b>> : a \in occurrences, b \in occurrences}]

\* SentenceRepository.save in a transaction that commits: APPEND of
\* Buffer.from(e.toRedis(), 'hex') to the shard
Sentence_save ==
    \E e \in Sentences :
        /\ Len(appended) + Len(e.additions) <= MaxRecords
        /\ shard' = shard \o BufferFromHex(toRedisHex(e.subKey, e.additions))
        /\ appended' = appended \o [i \in 1..Len(e.additions) |->
                                        <<e.subKey, e.additions[i][1], e.additions[i][2]>>]
        /\ UNCHANGED <<db, kv, queue, ctx, hist, repo>>

\* one shard that starts empty, one repository that has loaded nothing, no cards
SaveInit ==
    /\ db = <<>> /\ kv = <<>> /\ queue = <<>> /\ ctx = <<>> /\ hist = NoHist
    /\ shard = <<>> /\ appended = <<>> /\ repo = NewRepository

\* the saves of committed units of work on that shard
SaveSpec == SaveInit /\ [][Sentence_save]_vars

----------------------------------------------------------------------------
(* One Repository of one context, call by call.  A call runs to its end or *)
(* to its first await; load is suspended at `await this.getKey(key)` and   *)
(* goes on in a later step.  A cached value is a cell [t, id, key]: an     *)
(* entity or the promise of a load (id tells them apart, key is the key    *)
(* the load reads), null, or undefined.                                    *)
(*   stored  the keys that have a hash in the store                        *)
(*   cache   the Map cache: key -> cell                                    *)
(*   loads   the loads suspended at their await                            *)
(*   reads   how many hGetAll were issued for a key                        *)
(*   set     what the last create, renameCacheKey or delete put under a    *)
(*           key                                                           *)
(*   got     the get calls: the key, the cell returned, set[key] then      *)

NumKeys == 2     \* keys of the repository
MaxCalls == 4    \* calls of get, create, renameCacheKey and delete

\* Repository.get: a key the cache does not have is cached as the promise of its
\* load, which has issued its hGetAll; the call returns what the cache holds
Repository_get(key) ==
    /\ repo.calls < MaxCalls
    /\ Let(IF key \in DOMAIN repo.cache THEN repo
           ELSE [repo EXCEPT !.cache = Put(@, key, [t |-> "promise", id |-> repo.next, key |-> key]),
                             !.loads = @ \cup {[id |-> repo.next, key |-> key]},
                             !.reads = Put(@, key, 1),
                             !.next = @ + 1],
           LAMBDA r :
               repo' = [r EXCEPT !.calls = @ + 1,
                                 !.got = Append(@, [key |-> key, val |-> r.cache[key],
                                                    set |-> IF key \in DOMAIN r.set
                                                            THEN <<r.set[key]>> ELSE <<>>])])
    /\ UNCHANGED <<db, kv, queue, ctx, hist, shard, appended>>

\* Repository.load after its await: nothing for an empty hash, else the entity built
\* from the hash is put in the cache under the key of the load
Repository_load(key) ==
    /\ \E l \in repo.loads :
           /\ l.key = key
           /\ repo' = [repo EXCEPT !.loads = @ \ {l},
                                   !.cache = IF key \in repo.stored
                                             THEN Put(@, key, [t |-> "entity", id |-> l.id,
                                                               key |-> key])
                                             ELSE @]
    /\ UNCHANGED <<db, kv, queue, ctx, hist, shard, appended>>

\* Repository.create: the new entity is cached under the key
Repository_create(key) ==
    /\ repo.calls < MaxCalls
    /\ Let([t |-> "entity", id |-> repo.next, key |-> key], LAMBDA entity :
           repo' = [repo EXCEPT !.calls = @ + 1, !.next = @ + 1,
                                !.cache = Put(@, key, entity),
                                !.set = Put(@, key, entity)])
    /\ UNCHANGED <<db, kv, queue, ctx, hist, shard, appended>>

\* Repository.delete: null is cached under the key, the key is in deletions
Repository_delete(key) ==
    /\ repo.calls < MaxCalls
    /\ repo' = [repo EXCEPT !.calls = @ + 1,
                            !.cache = Put(@, key, [t |-> "null", id |-> 0, key |-> key]),
                            !.deletions = @ \cup {key},
                            !.set = Put(@, key, [t |-> "null", id |-> 0, key |-> key])]
    /\ UNCHANGED <<db, kv, queue, ctx, hist, shard, appended>>

\* Repository.renameCacheKey: cache.set(newKey, cache.get(oldKey)), delete(oldKey)
Repository_renameCacheKey(oldKey, newKey) ==
    /\ repo.calls < MaxCalls
    /\ Let(IF oldKey \in DOMAIN repo.cache THEN repo.cache[oldKey]
           ELSE [t |-> "undefined", id |-> 0, key |-> oldKey],
           LAMBDA moved :
               repo' = [repo EXCEPT !.calls = @ + 1,
                                    !.cache = Put(Put(@, newKey, moved), oldKey,
                                                  [t |-> "null", id |-> 0, key |-> oldKey]),
                                    !.deletions = @ \cup {oldKey},
                                    !.set = Put(Put(@, newKey, moved), oldKey,
                                                [t |-> "null", id |-> 0, key |-> oldKey])])
    /\ UNCHANGED <<db, kv, queue, ctx, hist, shard, appended>>

\* the calls a unit of work may make on the repository, in any order, and the loads
\* going on in between
RepositorySpec ==
    SaveInit /\ [][\/ \E key \in 1..NumKeys : Repository_get(key)
                   \/ \E key \in 1..NumKeys : Repository_load(key)
                   \/ \E key \in 1..NumKeys : Repository_create(key)
                   \/ \E key \in 1..NumKeys : Repository_delete(key)
                   \/ \E oldKey \in 1..NumKeys : \E newKey \in 1..NumKeys \ {oldKey} :
                          Repository_renameCacheKey(oldKey, newKey)]_vars

----------------------------------------------------------------------------
(* The stored graph: what a fresh context would load from the store *)

StoredKeys(prefix) == {K[2] : K \in {x \in DOMAIN kv : x[1] = prefix}}

StoredSubBucket(k) == SubBucket_fromRedis(kv[<<"SB", k>>], k)

StoredCards(k) == Range(MKeys(StoredSubBucket(k).cards))

\* the SubBucket named by the CardSubBucket entry of a card, 0 when it has none
CardEntry(c) ==
    IF <<"C", c>> \in DOMAIN kv /\ HashHas(kv[<<"C", c>>], "sb", 0)
    THEN HashGet(kv[<<"C", c>>], "sb", 0) ELSE 0

\* the members of a stored bucket set as the SubBucket objects of a context
StoredMembers(B) ==
    [sbH |-> [i \in 1..Cardinality(kv[<<"BS", B>>]) |->
                 StoredSubBucket(SortSet(kv[<<"BS", B>>])[i])]]

Committed == hist.kind = "commit"

----------------------------------------------------------------------------
(* Properties.  hist describes the last step: its kind, the worker and the *)
(* card, the store before the step (pre), the outcome of the replay (out), *)
(* the values the attempt had read (rd) and, for a commit, the outcome of  *)
(* the same card processed alone on the store before the EXEC (alone).     *)

\* the SubBucket hashes of the store before the last step
PreKeys(prefix) == {K[2] : K \in {x \in DOMAIN hist.pre : x[1] = prefix}}

\* the last step ended a unit of work of a card that had a SubBucket when the
\* unit read its CardSubBucket entry
ReprocessCase ==
    /\ hist.kind \in {"commit", "reprocess"}
    /\ <<"CSB", hist.card>> \in DOMAIN hist.rd
    /\ HashHas(hist.rd[<<"CSB", hist.card>>], "sb", 0)

\* C1: after every committed processCard, every card of every stored SubBucket
\* matches more than half of the cards of that SubBucket: count / size > 0.5.
C1_ShouldMatch ==
    \A k \in StoredKeys("SB") :
        \A i \in 1..Len(StoredSubBucket(k).cards) :
            2 * StoredSubBucket(k).cards[i][2] > Len(StoredSubBucket(k).cards)

\* a commit that evicted a card from a SubBucket that keeps three cards or more
C1_Witness ==
    /\ Committed
    /\ hist.out.enq # <<>>
    /\ \E k \in StoredKeys("SB") : Len(StoredSubBucket(k).cards) >= 3

\* C2: a card is a key of cards of a stored SubBucket exactly when its CardSubBucket
\* entry names that SubBucket, so it is in at most one; an entry names a stored one.
C2_OneOwner ==
    \A c \in 1..Len(db) :
        /\ \A k \in StoredKeys("SB") : c \in StoredCards(k) <=> CardEntry(c) = k
        /\ CardEntry(c) # 0 => CardEntry(c) \in StoredKeys("SB")

\* a card committed after a WatchError joined the SubBucket of a card that another
\* context committed
C2_Witness ==
    /\ Committed
    /\ hist.tries > 0
    /\ CardEntry(hist.card) # 0
    /\ Cardinality(StoredCards(CardEntry(hist.card))) >= 2

\* C3: the bucketSetId of every stored SubBucket is the key of a stored BucketSet that
\* contains the SubBucket, or its own key when no set is stored under it.
C3_BucketSetId ==
    \A k \in StoredKeys("SB") :
        IF <<"BS", StoredSubBucket(k).bs>> \in DOMAIN kv
        THEN k \in kv[<<"BS", StoredSubBucket(k).bs>>]
        ELSE StoredSubBucket(k).bs = k

\* C4: every SubBucket is stored under the smallest of its cards, and no hash is
\* left under a former key (no two stored hashes hold the same card).
C4_SubBucketKey ==
    /\ \A k \in StoredKeys("SB") : k = MathMin(MKeys(StoredSubBucket(k).cards))
    /\ \A k1, k2 \in StoredKeys("SB") : k1 # k2 => StoredCards(k1) \cap StoredCards(k2) = {}

\* a commit that renamed a SubBucket: the hash under k is gone and card k is in a
\* SubBucket of a smaller key
C4_Witness ==
    /\ Committed
    /\ \E k \in PreKeys("SB") \ StoredKeys("SB") :
           \E k2 \in StoredKeys("SB") : k2 < k /\ k \in StoredCards(k2)

\* C5: every stored BucketSet has the smallest of its members as its key.
C5_BucketSetKey ==
    \A B \in StoredKeys("BS") : B = MathMin(SortSet(kv[<<"BS", B>>]))

\* a commit that moved members of a stored set to a set of a smaller key
C5_Witness ==
    /\ Committed
    /\ \E B2 \in PreKeys("BS") \ StoredKeys("BS") :
           \E B \in StoredKeys("BS") \ PreKeys("BS") :
               B < B2 /\ kv[<<"BS", B>>] \cap hist.pre[<<"BS", B2>>] # {}

\* C6: in every stored BucketSet of more than one member, every member is stored and
\* would be merged with the others now (shouldMerge(others, [b])).
C6_Split ==
    \A B \in StoredKeys("BS") :
        Cardinality(kv[<<"BS", B>>]) > 1 =>
            /\ kv[<<"BS", B>>] \subseteq StoredKeys("SB")
            /\ \A i \in 1..Cardinality(kv[<<"BS", B>>]) :
                   shouldMerge(StoredMembers(B),
                               SelectSeq([j \in 1..Cardinality(kv[<<"BS", B>>]) |-> j],
                                         LAMBDA j : j # i),
                               <<i>>)

\* C7: the store changes at an EXEC only, and every EXEC leaves the store that the
\* same card processed alone on the store before the EXEC leaves: the final store
\* is that of the committed units run one after another in the order of their EXECs.
C7_Serial ==
    /\ ~Committed => kv = hist.pre
    /\ Committed => /\ hist.alone.kind = "commit"
                    /\ hist.alone.err = ""
                    /\ kv = ApplyTx(hist.pre, hist.alone.tx).kv

\* an EXEC of a unit that was retried, on a store another context had written
C7_Witness ==
    /\ Committed
    /\ hist.tries > 0
    /\ hist.pre # <<>>
    /\ kv # hist.pre

\* C8: a unit commits only if every shard of its sentences was read by its Matcher
\* and every shard it read is still what it read, so its Matcher saw every
\* occurrence committed before it: its matches are those of a run on the store.
C8_ShardWatch ==
    (Committed /\ ~ReprocessCase) =>
        /\ \A i \in 1..Len(db[hist.card]) : <<"S", db[hist.card][i]>> \in DOMAIN hist.rd
        /\ \A K \in DOMAIN hist.rd : K[1] = "S" => hist.rd[K] = KVRead(hist.pre, K)
        /\ hist.out.matched = hist.alone.matched

\* a unit committed after a WatchError, and the shard of one of its sentences held
\* the occurrence of another card
C8_Witness ==
    /\ Committed
    /\ hist.tries > 0
    /\ \E K \in DOMAIN hist.rd :
           /\ K[1] = "S"
           /\ \E i \in 1..Len(hist.rd[K]) : hist.rd[K][i][2] # hist.card

\* C9: a WatchError leaves the store as it was and restarts the card with an empty
\* context; what the retry then commits is computed from values it read itself,
\* all of them current: it is the transaction of the card processed alone.
C9_FreshRetry ==
    /\ hist.kind = "retry" =>
           /\ kv = hist.pre
           /\ ctx[hist.w] = [Idle EXCEPT !.st = "run", !.card = hist.card,
                                         !.tries = ctx[hist.w].tries]
           /\ ctx[hist.w].tries > 0
    /\ (Committed /\ hist.tries > 0) =>
           /\ \A K \in DOMAIN hist.rd : hist.rd[K] = KVRead(hist.pre, K)
           /\ hist.out.tx = hist.alone.tx

\* a WatchError of an attempt that had queued writes
C9_Witness ==
    /\ hist.kind = "retry"
    /\ hist.out.tx # <<>>
    /\ ctx[hist.w].rd = <<>>

\* C10: a unit of work of a card that already has a SubBucket takes the reprocess
\* path: the store is unchanged, no command is queued, no card is enqueued, and the
\* summary it returns has updates and no deletes.
C10_Reprocess ==
    ReprocessCase =>
        /\ hist.kind = "reprocess"
        /\ kv = hist.pre
        /\ hist.out.tx = <<>>
        /\ hist.out.enq = <<>>
        /\ hist.enq = <<>>
        /\ hist.out.deletes = <<>>
        /\ hist.out.updates # <<>>

\* a card is processed again and its bucket set is reported
C10_Witness ==
    /\ hist.kind = "reprocess"
    /\ kv # <<>>
    /\ \E i \in 1..Len(hist.out.updates) :
           SeqHas(hist.out.updates[i][2], hist.card)

\* the keys the commands of a transaction write
WrittenKeys(tx) == {tx[i][2] : i \in 1..Len(tx)}

\* the keys the last unit of work wrote without a WATCH
Unwatched == WrittenKeys(hist.out.tx) \ hist.out.wat

\* the CardSubBucket entry of a card in the store before the last step (0: none)
PreEntry(c) ==
    IF <<"C", c>> \in DOMAIN hist.pre /\ HashHas(hist.pre[<<"C", c>>], "sb", 0)
    THEN HashGet(hist.pre[<<"C", c>>], "sb", 0)
    ELSE 0

\* the bucketSetId of a SubBucket in the store before the last step (0: not stored)
PreBucketSetId(k) ==
    IF <<"SB", k>> \in DOMAIN hist.pre THEN HashGet(hist.pre[<<"SB", k>>], "bs", 0) ELSE 0

\* every key a unit has read is watched on its connection
ReadWatched == \A w \in Workers : \A K \in DOMAIN ctx[w].rd : StoreKey(K) \in ctx[w].wat

\* C11 as stated: every key a unit has read is watched (the WATCH goes out with the
\* read, before it), and every key a committed unit wrote was watched before the EXEC.
C11_AllWatched ==
    /\ ReadWatched
    /\ Committed => Unwatched = {}

\* C11: every key a unit has read is watched, and a committed unit wrote without a
\* WATCH only keys that a rename moved a stored SubBucket or BucketSet to: such a
\* key was not stored before and holds a card (a member) that was stored under
\* another key.  The key of every entity the unit created was watched.
C11_Watched ==
    /\ ReadWatched
    /\ Committed =>
           \A k \in Unwatched :
               /\ k \notin DOMAIN hist.pre
               /\ k \in DOMAIN kv
               /\ k[1] \in {"SB", "BS"}
               /\ k[1] = "SB" => \E c \in StoredCards(k[2]) : PreEntry(c) \notin {0, k[2]}
               /\ k[1] = "BS" => \E m \in kv[k] : PreBucketSetId(m) \notin {0, k[2]}

\* a commit wrote the hash of a SubBucket it created: the key was watched and never read
C11_Witness ==
    /\ Committed
    /\ <<"SB", hist.card>> \in WrittenKeys(hist.out.tx) \cap hist.out.wat
    /\ <<"SB", hist.card>> \notin DOMAIN hist.rd
    /\ StoredCards(hist.card) = {hist.card}

C13_NoWatchLeft ==
    /\ \A w \in Workers : ctx[w].left = {}
    /\ hist.kind = "retry" => hist.dirty

\* the cards that are keys of matching of the stored SubBucket k
StoredMatching(k) == Range(MKeys(StoredSubBucket(k).matching))

StoredMatches(x) ==
    Range(getMatching([NewContext(kv) EXCEPT !.alone = TRUE], x, loadSentences(x)).v.matches)

\* the cards that have been ingested: their CardLength is stored
KnownCards == {c \in 1..Len(db) : <<"C", c>> \in DOMAIN kv}

\* the number of members of the stored SubBucket k that card x matches
MatchCount(k, x) == Cardinality(StoredCards(k) \cap StoredMatches(x))

\* C15: in every committed state, for every stored SubBucket and every ingested card x
\* that is not one of its cards, matching[x] is the number of its cards that x
\* matches, and x is not a key of matching when that number is 0; a card that was
\* evicted from the SubBucket and waits in the queue is no exception.
C15_MatchingCount ==
    \A k \in StoredKeys("SB") :
        \A x \in KnownCards \ StoredCards(k) :
            IF MatchCount(k, x) = 0 THEN x \notin StoredMatching(k)
            ELSE /\ x \in StoredMatching(k)
                 /\ MGet(StoredSubBucket(k).matching, x) = MatchCount(k, x)

\* cards[c] of the stored SubBucket k
InternalMatchCount(k, c) == MGet(StoredSubBucket(k).cards, c)

\* the other cards of the stored SubBucket k that match c
OthersMatching(k, c) == {d \in StoredCards(k) \ {c} : c \in StoredMatches(d)}

\* C16: for every card c of a stored SubBucket, cards[c] is the number of other cards
\* of that SubBucket that match c.
C16_OthersOnly ==
    \A k \in StoredKeys("SB") :
        \A c \in StoredCards(k) : InternalMatchCount(k, c) = Cardinality(OthersMatching(k, c))

WithBucketSetId(B) == {k \in StoredKeys("SB") : StoredSubBucket(k).bs = B}

\* the subBucketIds of the BucketSet that loadRedis builds for a key of the store
LoadedBucketSet(key) ==
    Let(BucketSet_get([NewContext(kv) EXCEPT !.alone = TRUE], key), LAMBDA g : g.L.bsH[g.v].ids)

\* C18: no stored BS: set has fewer than two members; when one SubBucket only has the
\* bucketSetId B no set is stored under B; and the BucketSet loaded for a key under
\* which no set is stored is the set of that key alone.
C18_NoSingleton ==
    /\ \A B \in StoredKeys("BS") : Cardinality(kv[<<"BS", B>>]) >= 2
    /\ \A B \in 1..Len(db) : Cardinality(WithBucketSetId(B)) = 1 => <<"BS", B>> \notin DOMAIN kv
    /\ \A key \in 1..Len(db) : <<"BS", key>> \notin DOMAIN kv => LoadedBucketSet(key) = <<key>>

\* a commit deleted a stored set and left one of its members, still stored, alone in
\* its bucket set
C18_Witness ==
    /\ Committed
    /\ \E B \in PreKeys("BS") \ StoredKeys("BS") :
           \E k \in hist.pre[<<"BS", B>>] \cap StoredKeys("SB") :
               /\ WithBucketSetId(StoredSubBucket(k).bs) = {k}
               /\ LoadedBucketSet(StoredSubBucket(k).bs) = <<StoredSubBucket(k).bs>>

\* the stored CardLength of a card (0: none)
StoredLength(store, c) ==
    IF <<"C", c>> \in DOMAIN store /\ HashHas(store[<<"C", c>>], "l", 0)
    THEN HashGet(store[<<"C", c>>], "l", 0)
    ELSE 0

\* C19: a stored CardLength is the number of sentences of the card, and no step
\* deletes or changes it: not the commit that removes the card from its SubBucket
\* and clears the sb field of the same C: hash, and not the commit that processes
\* the card again.
C19_LengthKept ==
    /\ [](\A c \in 1..Len(db) : StoredLength(kv, c) \in {0, Len(db[c])})
    /\ [][\A c \in 1..Len(db) :
              StoredLength(kv, c) # 0 => StoredLength(kv', c) = StoredLength(kv, c)]_vars

\* a commit removed a card from its SubBucket: the sb field of its hash is gone and
\* its length is stored
C19_Witness ==
    /\ Committed
    /\ \E c \in 1..Len(db) :
           /\ PreEntry(c) # 0
           /\ CardEntry(c) = 0
           /\ StoredLength(kv, c) = Len(db[c])
           /\ StoredLength(hist.pre, c) = Len(db[c])

\* the cards that had a SubBucket before the last step and have lost it: their
\* CardSubBucket entry is none or they are a card of no stored SubBucket
RemovedCards ==
    {c \in 1..Len(db) :
        /\ PreEntry(c) # 0
        /\ \/ CardEntry(c) = 0
           \/ \A k \in StoredKeys("SB") : c \notin StoredCards(k)}

\* C20: after a commit, the cards the unit removed from their SubBucket are the cards
\* that lost their SubBucket, and each of them is a card of no stored SubBucket, has
\* no CardSubBucket entry and is in the queue of the process that removed it.
C20_Requeued ==
    Committed =>
        /\ RemovedCards = Range(hist.out.enq)
        /\ \A c \in RemovedCards :
               /\ CardEntry(c) = 0
               /\ \A k \in StoredKeys("SB") : c \notin StoredCards(k)
               /\ SeqHas(queue[hist.w], c)

\* a commit removed a card from a SubBucket that is still stored, under the key it
\* had or under another
C20_Witness ==
    /\ Committed
    /\ \E c \in RemovedCards :
           /\ SeqHas(queue[hist.w], c)
           /\ \E k \in StoredKeys("SB") :
                  \E d \in StoredCards(k) : d # c /\ PreEntry(d) = PreEntry(c)

\* C21: resolveRemoves terminates: the replay never runs out of fuel, every call of
\* resolveRemoves after a removeCard finds a SubBucket with fewer cards than the call
\* before it, and the number of removals is at most the number of cards the
\* SubBucket had at the first call.
C21_Terminates ==
    /\ hist.out.err # "diverged"
    /\ \A i \in 1..(Len(hist.out.sizes) - 1) : hist.out.sizes[i + 1] < hist.out.sizes[i]
    /\ hist.out.sizes # <<>> => Len(hist.out.sizes) - 1 <= hist.out.sizes[1]

\* a commit after resolveRemoves removed a card and called itself on a SubBucket
\* that kept two cards or more
C21_Witness ==
    /\ Committed
    /\ Len(hist.out.sizes) >= 2
    /\ hist.out.sizes[Len(hist.out.sizes)] >= 2
    /\ hist.out.enq # <<>>

C23_SaveLoad ==
    Committed =>
        /\ \A i \in 1..Len(hist.out.sb) :
               (hist.out.sb[i].upd /\ hist.out.sb[i].cards # <<>>) =>
                   /\ <<"SB", hist.out.sb[i].key>> \in DOMAIN kv
                   /\ StoredSubBucket(hist.out.sb[i].key) = [hist.out.sb[i] EXCEPT !.upd = FALSE]
        /\ \A i \in 1..Len(hist.out.bs) :
               hist.out.bs[i].ids # <<>> =>
                   Range(LoadedBucketSet(hist.out.bs[i].key)) = Range(hist.out.bs[i].ids)
        /\ \A i \in 1..Len(hist.out.tx) :
               /\ (hist.out.tx[i][1] = "hset" /\ hist.out.tx[i][3] = "l") =>
                      StoredLength(kv, hist.out.tx[i][2][2]) = hist.out.tx[i][5]
               /\ (hist.out.tx[i][1] = "hset" /\ hist.out.tx[i][3] = "sb") =>
                      CardEntry(hist.out.tx[i][2][2]) = hist.out.tx[i][5]

\* the <<cardId, index>> appended with a subKey, in the order of their APPENDs
C24_AppendedWith(subKey) ==
    Let(SelectSeq(appended, LAMBDA r : r[1] = subKey), LAMBDA mine :
        [i \in 1..Len(mine) |-> <<mine[i][2], mine[i][3]>>])

\* C24: after any sequence of committed saves the shard has a length that is a
\* multiple of 11 bytes, and for every subKey its records decode to the card ids
\* and sentence indexes that were appended with it, whatever their size.
C24_WellFormed ==
    /\ Len(shard) % RECORD_BYTES = 0
    /\ Len(shard) = RECORD_BYTES * Len(appended)
    /\ \A e \in Sentences :
           fromRedisBytes(shard, e.subKey)
               = [err |-> FALSE, matches |-> C24_AppendedWith(e.subKey)]

\* the bucket sets of a store as a fresh context loads them: for every bucketSetId
\* of a stored SubBucket the key and the cards of the SubBuckets of the set
C25_BucketSets(store) ==
    LET subBuckets == {K[2] : K \in {x \in DOMAIN store : x[1] = "SB"}}
        stored(k) == SubBucket_fromRedis(store[<<"SB", k>>], k)
        ids(B) == IF <<"BS", B>> \in DOMAIN store THEN store[<<"BS", B>>] ELSE {B}
    IN  {[key |-> B,
          cards |-> UNION {Range(MKeys(stored(k).cards)) : k \in ids(B) \cap subBuckets}] :
            B \in {stored(k).bs : k \in subBuckets}}

\* the entries of the returned updates with a bucketId
C25_Entries(bucketId) ==
    {i \in 1..Len(hist.out.updates) : hist.out.updates[i][1] = bucketId}

\* C25: after a committed processCard, every BucketSet of the store whose cards are
\* not the cards of a BucketSet of the store before has exactly one entry in the
\* returned updates, and the cardIds of that entry are its cards.
C25_UpdatesComplete ==
    Committed =>
        \A s \in C25_BucketSets(kv) :
            s.cards \notin {t.cards : t \in C25_BucketSets(hist.pre)} =>
                /\ Cardinality(C25_Entries(s.key)) = 1
                /\ \A i \in C25_Entries(s.key) : Range(hist.out.updates[i][2]) = s.cards

\* C26: a key in the deletes returned by a committed processCard is the bucketSetId
\* of no stored SubBucket, names no stored BS: set, and is the bucketId of no entry
\* of the updates of the same result.
C26_DeletesGone ==
    Committed =>
        \A i \in 1..Len(hist.out.deletes) :
            /\ hist.out.deletes[i] \notin {s.key : s \in C25_BucketSets(kv)}
            /\ <<"BS", hist.out.deletes[i]>> \notin DOMAIN kv
            /\ C25_Entries(hist.out.deletes[i]) = {}

\* what awaiting a cell gives: the promise of a load gives the entity the load builds
\* from a stored hash and null for a key that is not stored; undefined counts as no
\* entity, like null
C27_Awaited(cell) ==
    IF cell.t = "promise"
    THEN IF cell.key \in repo.stored THEN [t |-> "entity", id |-> cell.id] ELSE [t |-> "null", id |-> 0]
    ELSE IF cell.t = "entity" THEN [t |-> "entity", id |-> cell.id]
    ELSE [t |-> "null", id |-> 0]

\* C27: in one context the store is read at most once for a key; two get calls for
\* a key with no create, rename or delete of it in between yield the same entity;
\* and a get call after the key was created, renamed or deleted yields what that
\* call put under the key, also when a load of the key was in flight then.
C27_SameEntity ==
    /\ \A key \in DOMAIN repo.reads : repo.reads[key] <= 1
    /\ \A i \in 1..Len(repo.got) : \A j \in i..Len(repo.got) :
           repo.got[i].key = repo.got[j].key /\ repo.got[i].set = repo.got[j].set
               => C27_Awaited(repo.got[i].val) = C27_Awaited(repo.got[j].val)
    /\ \A i \in 1..Len(repo.got) :
           repo.got[i].set # <<>> => C27_Awaited(repo.got[i].val) = C27_Awaited(repo.got[i].set[1])

\* C28: in every SubBucket.resolve call of the last unit of work, the value of
\* BucketSet.resolve tells whether it evicted a SubBucket, and after an eviction
\* resolveUpdates is handed all the keys of matching.
C28_ReportsEviction ==
    \A i \in 1..Len(hist.out.res) :
        /\ hist.out.res[i].bucketWasRemoved = hist.out.res[i].evicted
        /\ hist.out.res[i].evicted => hist.out.res[i].canidates = hist.out.res[i].matching

\* C29: after every merge call that returned in the last unit of work, the ids of the
\* first BucketSet are the ids both had before, the second has none and its key is in
\* deletions, the key of the first is the least of its ids, the first is the entity
\* cached under that key, and every SubBucket of the first has that key as its
\* bucketSetId.
C29_Merged ==
    \A i \in 1..Len(hist.out.merges) :
        Let(hist.out.merges[i], LAMBDA m :
            /\ Range(m.a.ids) = Range(m.preA.ids) \cup Range(m.preB.ids)
            /\ m.b.ids = <<>>
            /\ m.deleted
            /\ m.a.key = MathMin(m.a.ids)
            /\ m.cached
            /\ \A j \in 1..Len(m.bucketSetIds) : m.bucketSetIds[j] = m.a.key)

\* a committed unit of work merged a BucketSet into one of greater key
C29_Witness ==
    /\ Committed
    /\ \E i \in 1..Len(hist.out.merges) :
           /\ hist.out.merges[i].preB.key < hist.out.merges[i].preA.key
           /\ Len(hist.out.merges[i].a.ids) >= 2

\* the bucketCandidates of a placement that hold more than half of their cards among
\* the matched cards
C30_Matching(p) ==
    {i \in 1..Len(p.bucketCandidates) :
        2 * Cardinality(p.bucketCandidates[i].cards \cap Range(p.matchedCards))
            > Cardinality(p.bucketCandidates[i].cards)}

\* C30 as stated: a unit of work on the non-reprocess path puts the card in exactly
\* one SubBucket: a new one keyed by the card and holding it alone when no candidate
\* matches, else a matching candidate that no matching candidate exceeds in size.
C30_Placed ==
    \A n \in 1..Len(hist.out.placed) :
        Let(hist.out.placed[n], LAMBDA p :
            /\ p.holders = {p.addBucket}
            /\ IF C30_Matching(p) = {}
               THEN p.created /\ p.key = p.id /\ p.cards = {p.id}
               ELSE /\ ~p.created
                    /\ \E i \in C30_Matching(p) :
                           /\ p.bucketCandidates[i].o = p.addBucket
                           /\ \A j \in C30_Matching(p) :
                                  Cardinality(p.bucketCandidates[j].cards)
                                      <= Cardinality(p.bucketCandidates[i].cards))

\* C30: a unit of work on the non-reprocess path adds the card to a new SubBucket
\* keyed by the card and holding it alone when no candidate matches, else to a
\* matching candidate that no matching candidate exceeds in size; the card is then in
\* no other SubBucket, except in a unit of work that read a store that changed under
\* it, which does not commit.
C30_PlacedOnce ==
    \A n \in 1..Len(hist.out.placed) :
        Let(hist.out.placed[n], LAMBDA p :
            /\ p.addBucket \in p.holders
            /\ p.holders # {p.addBucket} => hist.dirty /\ hist.kind # "commit"
            /\ IF C30_Matching(p) = {}
               THEN p.created /\ p.key = p.id /\ p.cards = {p.id}
               ELSE /\ ~p.created
                    /\ \E i \in C30_Matching(p) :
                           /\ p.bucketCandidates[i].o = p.addBucket
                           /\ \A j \in C30_Matching(p) :
                                  Cardinality(p.bucketCandidates[j].cards)
                                      <= Cardinality(p.bucketCandidates[i].cards))

\* a committed unit of work chose between two matching candidates of different size
C30_Witness ==
    /\ Committed
    /\ \E n \in 1..Len(hist.out.placed) :
           /\ Cardinality(C30_Matching(hist.out.placed[n])) >= 2
           /\ \E i, j \in C30_Matching(hist.out.placed[n]) :
                  Cardinality(hist.out.placed[n].bucketCandidates[i].cards)
                      < Cardinality(hist.out.placed[n].bucketCandidates[j].cards)

----------------------------------------------------------------------------
(* C31: whatever the sequence of units of work (cards processed again after *)
(* an eviction, retries after a conflict, one card processed by two         *)
(* contexts), no <<subKey, cardId, index>> record is in a sentence shard    *)
(* twice, and a step keeps the records a shard held before it, in their     *)
(* places: the shard before the step is a prefix of the shard after it.     *)
C31_AppendedOnce ==
    /\ \A k \in DOMAIN kv :
          k[1] = "S" => \A i, j \in 1..Len(kv[k]) : kv[k][i] = kv[k][j] => i = j
    /\ \A k \in DOMAIN hist.pre :
          k[1] = "S" => /\ k \in DOMAIN kv
                        /\ Len(hist.pre[k]) <= Len(kv[k])
                        /\ SubSeq(kv[k], 1, Len(hist.pre[k])) = hist.pre[k]

\* a unit of work commits for a card whose occurrences were in the index already
C31_Witness ==
    /\ hist.kind = "commit"
    /\ hist.out.tx # <<>>
    /\ \E k \in DOMAIN hist.pre :
          k[1] = "S" /\ \E i \in 1..Len(hist.pre[k]) : hist.pre[k][i][2] = hist.card

----------------------------------------------------------------------------
\* the aIndex values (side "a") or bIndex values (side "b") of the occurrences the
\* card of a getMatching call shares with the card id
C32_Shared(g, id, side) ==
    UNION {{IF side = "a" THEN i - 1 ELSE g.matches[i][j][2] :
                j \in {k \in 1..Len(g.matches[i]) : g.matches[i][k][1] = id}} :
           i \in 1..Len(g.matches)}

C32_Least(S) == CHOOSE x \in S : \A y \in S : x <= y
C32_Greatest(S) == CHOOSE x \in S : \A y \in S : y <= x

(* C32: after the loop of getMatching, matchInfo holds for every matched    *)
(* card, on side a and on side b, the least and the greatest index among    *)
(* all occurrences the two cards share, whatever the order in which the      *)
(* occurrences were met.                                                    *)
C32_TrueMinMax ==
    \A n \in 1..Len(hist.out.seen) :
        \A e \in 1..Len(hist.out.seen[n].matchInfo) :
            Let(hist.out.seen[n].matchInfo[e], LAMBDA m :
                /\ m[2].a.min = C32_Least(C32_Shared(hist.out.seen[n], m[1], "a"))
                /\ m[2].a.max = C32_Greatest(C32_Shared(hist.out.seen[n], m[1], "a"))
                /\ m[2].b.min = C32_Least(C32_Shared(hist.out.seen[n], m[1], "b"))
                /\ m[2].b.max = C32_Greatest(C32_Shared(hist.out.seen[n], m[1], "b")))

----------------------------------------------------------------------------
(* C33: a call of SubBucket.resolve ends.  No replay runs out of fuel in the *)
(* recursion of resolveRemoves, BucketSet.resolve, removeSubBucket and       *)
(* resolveUpdates; every merge that resolveUpdates made before it called     *)
(* itself again emptied a bucket set that had members, so that the number of *)
(* bucket sets with members went down; and a replay that has read all it     *)
(* needs and entered SubBucket.resolve has either thrown or gone on to the   *)
(* end of the unit of work.                                                  *)
C33_ResolveTerminates ==
    /\ hist.out.err # "diverged"
    /\ hist.alone.err # "diverged"
    /\ \A n \in 1..Len(hist.out.merges) :
           /\ hist.out.merges[n].preB.ids # <<>>
           /\ hist.out.merges[n].b.ids = <<>>
    /\ hist.out.miss = NoKey /\ hist.out.err = "" /\ hist.out.res # <<>>
           => hist.out.kind = "commit"

\* a unit of work commits after SubBucket.resolve evicted a SubBucket from its bucket
\* set and resolveUpdates merged a bucket set and called itself again
C33_Witness ==
    /\ hist.kind = "commit"
    /\ hist.out.kind = "commit"
    /\ \E i \in 1..Len(hist.out.res) : hist.out.res[i].evicted
    /\ hist.out.merges # <<>>

----------------------------------------------------------------------------
(* Liveness.  drain ends with setImmediate(drain), so a process whose       *)
(* dedupQueue holds a card and that is not inside processCard dequeues      *)
(* again; inside processCard every await is a reply of the store or of the  *)
(* database, which arrives.  Step(w) is enabled exactly when ctx[w].st is   *)
(* "run" (one of Read, Fail, Return, Conflict and Commit applies to every   *)
(* outcome, and each changes ctx), so the second conjunct is WF_vars(Step(w)) *)
(* written without ENABLED.                                                 *)
FairSpec ==
    /\ Init
    /\ [][Next]_vars
    /\ \A w \in Workers :
          /\ WF_vars(Dequeue(w))
          /\ ([]<>(ctx[w].st # "run") \/ []<><<Step(w)>>_vars)

\* every dedupQueue is empty and no process is inside processCard
C34_Drained == \A w \in Workers : queue[w] = <<>> /\ ctx[w].st = "idle"

\* one drain loop: the other processes have nothing queued and nothing running
C34_SingleLoop == \A w \in Workers : w # 1 => queue[w] = <<>> /\ ctx[w].st = "idle"

\* every card with a sentence is a member of exactly one stored SubBucket
C34_EveryCardPlaced ==
    \A c \in 1..Len(db) :
        db[c] # <<>> => Cardinality({k \in StoredKeys("SB") : c \in StoredCards(k)}) = 1

(* C34: from an empty store with finitely many cards in the dedupQueue of   *)
(* one drain loop, the loop eventually empties the queue, and whenever the  *)
(* queue is empty and no card is being processed, every card with at least  *)
(* one sentence is a member of exactly one SubBucket.                       *)
C34_Drains ==
    (kv = <<>> /\ C34_SingleLoop) => (<>C34_Drained /\ [](C34_Drained => C34_EveryCardPlaced))

\* the drain loop of the third scenario (seven cards, one process) has emptied its
\* queue after it processed an evicted card again
C34_Witness ==
    /\ C34_Drained
    /\ db = Scenarios[3].db
    /\ hist.kind = "commit"
    /\ \E k \in DOMAIN hist.pre :
          k[1] = "S" /\ \E i \in 1..Len(hist.pre[k]) : hist.pre[k][i][2] = hist.card
    /\ C34_EveryCardPlaced

----------------------------------------------------------------------------
(* C35: with finitely many cards queued by processes that run concurrently  *)
(* and a fair scheduler, every processCard call ends: a process that is     *)
(* inside processCard eventually is not (it returned, or it rejected with   *)
(* an error other than WatchError).  An EXEC is aborted only when a key     *)
(* WATCHed on the connection was modified, and a connection gets into that  *)
(* condition only by the commit of another process.                         *)
C35_Returns ==
    /\ \A w \in Workers : (ctx[w].st = "run") ~> (ctx[w].st # "run")
    /\ [](hist.kind = "retry" => hist.dirty \/ hist.stale)
    /\ [][\A w \in Workers :
             (ctx'[w].dirty \/ ctx'[w].stale) /\ ~(ctx[w].dirty \/ ctx[w].stale)
                 => hist'.kind = "commit" /\ hist'.w # w]_vars

\* a unit of work commits after its EXEC was aborted once or more
C35_Witness ==
    /\ hist.kind = "commit"
    /\ hist.tries >= 1
    /\ ctx[hist.w].st = "idle"

----------------------------------------------------------------------------
(* C36: when SubBucket.propogateKey returns after a rename, the rename of   *)
(* the bucket set is complete: subBucketIds holds the new key and not the   *)
(* old one, the key of the set is the one createKey gives and the cache     *)
(* holds the set under it, and every SubBucket of the set has that key as   *)
(* its bucketSetId.                                                         *)
C36_RenameComplete ==
    \A n \in 1..Len(hist.out.renames) :
        Let(hist.out.renames[n], LAMBDA r :
            /\ SeqHas(r.subBucketIds, r.newKey)
            /\ ~SeqHas(r.subBucketIds, r.oldKey)
            /\ r.key = r.createKey
            /\ r.cached
            /\ \A i \in 1..Len(r.bucketSetIds) : r.bucketSetIds[i] = r.createKey)

----------------------------------------------------------------------------
(* C37: a unit of work that is aborted (its EXEC fails with WatchError, or  *)
(* it throws before EXEC) leaves the store and the dedupQueue as they were: *)
(* the store is the one before the step, and the attempt has added no card  *)
(* to the dedupQueue, so that a card removeCard evicted is queued only when *)
(* the removal is committed.                                                *)
C37_AbortLeavesNothing ==
    hist.kind \in {"retry", "error"} => kv = hist.pre /\ hist.out.enq = <<>>

----------------------------------------------------------------------------
\* the Matcher is symmetric on the cards that have been ingested
C38_Symmetric ==
    \A x, y \in KnownCards : (y \in StoredMatches(x)) <=> (x \in StoredMatches(y))

(* C38: when the match relation is symmetric, after every commit (whatever  *)
(* createNew, addCard and removeCard calls the units have made) cards[c] of *)
(* every card c of every stored SubBucket is a number, and it is 1 plus the *)
(* number of the other cards of the SubBucket that match c; and the         *)
(* decrements of removeCard take no remaining card out of cards: a card     *)
(* that was in a SubBucket before the commit and was not evicted by it is   *)
(* in a SubBucket after it.                                                 *)
C38_CountsExact ==
    C38_Symmetric =>
        /\ \A k \in StoredKeys("SB") :
               \A c \in StoredCards(k) :
                   /\ InternalMatchCount(k, c) \in Nat
                   /\ InternalMatchCount(k, c) = 1 + Cardinality(OthersMatching(k, c))
        /\ Committed =>
               \A c \in KnownCards :
                   (PreEntry(c) # 0 /\ ~SeqHas(hist.out.enq, c)) =>
                       \E k \in StoredKeys("SB") : c \in StoredCards(k)

\* a commit whose removeCard evicted a card from a SubBucket that keeps three cards
\* or more, one of which does not match all the others, under a symmetric Matcher
C38_Witness ==
    /\ C38_Symmetric
    /\ Committed
    /\ hist.out.enq # <<>>
    /\ \E k \in StoredKeys("SB") :
           /\ Cardinality(StoredCards(k)) >= 3
           /\ \E c \in StoredCards(k) : InternalMatchCount(k, c) < Cardinality(StoredCards(k))
           /\ \E c \in StoredCards(k) : InternalMatchCount(k, c) > 1

====
